---- MODULE Spec2Model ----
(***************************************************************************)
(* Model of the retry engine (withRetry, RetryError), of the               *)
(* authenticated API client (token cache, getAccessToken,                  *)
(* makeAuthenticatedRequest, getPackages, getPackageById) and of the error *)
(* handling (handleError, createUserFriendlyMessage, the catch blocks of   *)
(* the route handlers) of the travel-assistant application, and of its two *)
(* chat processors (the retry-based processWithai with                     *)
(* handlePackageRequest, and the guided processWithai with                 *)
(* extractConversationState).                                              *)
(*                                                                         *)
(* The specifications share the definitions of withRetry and handleError:  *)
(*   SpecRetry         one withRetry call with options drawn from a        *)
(*                     bounded set and an operation whose outcome per      *)
(*                     invocation is chosen by the environment;            *)
(*   Spec              the API client: calls of getAccessToken and         *)
(*                     makeAuthenticatedRequest over the process-wide      *)
(*                     token cache, a clock, and a downstream API whose    *)
(*                     responses are chosen by the environment;            *)
(*   SpecPackages      the exported operations, getPackages paginating;    *)
(*   SpecPackagesFair  the same, every request sent being answered;        *)
(*   SpecConcurrent    two requests calling getAccessToken concurrently;   *)
(*   SpecInterleaved   two requests, each logging in and asking for data;  *)
(*   SpecErrors        one caught value classified and answered;           *)
(*   SpecChat          one chat request through the retry-based processor, *)
(*                     its packages fetch served by the packages route     *)
(*                     over the API client;                                *)
(*   SpecGuided        one conversation with the guided processor, the     *)
(*                     texts of the user and of the language model chosen  *)
(*                     by the environment.                                 *)
(*                                                                         *)
(* Atomicity follows the source: an action runs from one real suspension   *)
(* point (fetch, setTimeout, response.json()) to the next one.             *)
(***************************************************************************)
EXTENDS Integers, Sequences, FiniteSets, TLC

VARIABLES
    now,          \* Date.now(), in milliseconds
    \* ---- one withRetry call (SpecRetry) ----
    options,      \* the options argument of the call (fields may be omitted)
    call,         \* the frame of the call: position, attempt, lastError, ...
    invocations,  \* number of times operation() has been invoked
    inFlight,     \* number of invocations of operation() not yet settled
    delays,       \* the delays (ms) waited so far, in order
    rejections,   \* the values operation() rejected with, in order
    readyAt,      \* earliest time the next invocation may start (failure time + delay)
    \* ---- the API client (Spec) ----
    cachedToken,  \* module variable cachedToken (0 = null / undefined)
    tokenExpiry,  \* module variable tokenExpiry
    env,          \* process.env: which credentials are configured
    procs,        \* per request: position, local variables, retry frame
    issued,       \* number of tokens issued by the login endpoint
    issuedAt,     \* time at which the client received the cached token from login
    revoked,      \* tokens for which a data request was answered 401
    calls,        \* number of API-client calls started
    \* ---- error handling (SpecErrors) ----
    handling,     \* one caught value: its classification, message, response
    \* ---- the chat processors (SpecChat, SpecGuided) ----
    chat,         \* one chat request of the retry-based processWithai
    guided        \* one conversation of the guided processWithai

retryVars == <<options, call, invocations, inFlight, delays, rejections, readyAt>>
clientVars == <<cachedToken, tokenExpiry, env, procs, issued, issuedAt, revoked, calls>>
errorVars == <<handling>>
chatVars == <<chat, guided>>
vars == <<now, options, call, invocations, inFlight, delays, rejections, readyAt,
          cachedToken, tokenExpiry, env, procs, issued, issuedAt, revoked, calls,
          handling, chat, guided>>

(***************************************************************************)
(* Bounds                                                                  *)
(***************************************************************************)
MaxAttemptsBound == 5
MaxCalls == 3

\* a behaviour of the package operations makes at most MaxPackageCalls calls
MaxPackageCalls == 1

\* the list endpoint returns full pages only before page MaxPages
MaxPages == 3

\* concurrent requests make at most MaxConcurrentCalls calls in all
MaxConcurrentCalls == 2

\* the user writes at most MaxTurns messages in a conversation
MaxTurns == 4

\* how long one invocation of operation() may take (ms)
OperationTimes == {0, 50}

(***************************************************************************)
(* Error messages are sequences of atoms.  The atoms are the substrings    *)
(* the code searches for, single decimal digits, and filler text that      *)
(* contains none of the searched substrings.                               *)
(***************************************************************************)
Digits == {"0", "1", "2", "3", "4", "5", "6", "7", "8", "9"}

DigitOf(d) ==
    CASE d = 0 -> "0" [] d = 1 -> "1" [] d = 2 -> "2" [] d = 3 -> "3"
      [] d = 4 -> "4" [] d = 5 -> "5" [] d = 6 -> "6" [] d = 7 -> "7"
      [] d = 8 -> "8" [] d = 9 -> "9"

RECURSIVE NumStr(_)
NumStr(n) == IF n < 10 THEN <<DigitOf(n)>>
             ELSE NumStr(n \div 10) \o <<DigitOf(n % 10)>>

\* String.prototype.includes
includes(msg, pat) ==
    \E i \in 0..(Len(msg) - Len(pat)) :
        \A j \in 1..Len(pat) : msg[i + j] = pat[j]

\* /5\d\d/.test(msg)
test5dd(msg) ==
    \E i \in 1..(Len(msg) - 2) :
        msg[i] = "5" /\ msg[i + 1] \in Digits /\ msg[i + 2] \in Digits

(***************************************************************************)
(* Values that can be thrown                                               *)
(***************************************************************************)
NoError == [type |-> "none"]

\* new Error(message); id tells apart the errors of different invocations
Error(message, id) == [type |-> "Error", message |-> message, id |-> id]

\* a thrown value that is not an Error and has no message property (a string)
NonError(id) == [type |-> "NonError", id |-> id]

\* a thrown null or undefined
Nullish(id) == [type |-> "Nullish", id |-> id]

\* the TypeError of reading a property of null or undefined
TypeError == [type |-> "TypeError", message |-> <<"Cannot read properties of undefined">>]

IsNullish(v) == v.type = "Nullish"

HasMessage(v) == v.type \in {"Error", "AppError", "RetryError", "TypeError"}

\* `${v.message}` in a template literal
MessageText(v) == IF HasMessage(v) THEN v.message ELSE <<"undefined">>

(***************************************************************************)
(* RetryError and withRetry                                                *)
(***************************************************************************)
RetryError(message, attempts, lastError) ==
    [type |-> "RetryError", message |-> message, attempts |-> attempts,
     lastError |-> lastError]

\* the default retryCondition of withRetry
DefaultRetryCondition(message) ==
    \/ includes(message, <<"fetch">>)
    \/ includes(message, <<"timeout">>)
    \/ includes(message, <<"ECONNRESET">>)
    \/ includes(message, <<"ENOTFOUND">>)
    \/ (includes(message, <<"status">>) /\ test5dd(message))

\* faulty variant: every error is retried
ApiRetryCondition_RetriesAll(message) == TRUE

\* API_CONFIG.retryOptions.retryCondition
ApiRetryCondition(message) ==
    /\ DefaultRetryCondition(message)
    /\ ~includes(message, <<"4", "0", "1">>)
    /\ ~includes(message, <<"4", "0", "3">>)

\* the retryCondition passed by getAccessToken
LoginRetryCondition(message) ==
    /\ ApiRetryCondition(message)
    /\ ~includes(message, <<"Authentication failed">>)

\* Calling retryCondition(lastError): "true", "false", or "throws" when the
\* predicate reads error.message.includes on a value without a message.
retryCondition(kind, error) ==
    CASE kind = "always" -> "true"
      [] kind = "never" -> "false"
      [] OTHER ->
           IF ~HasMessage(error) THEN "throws"
           ELSE LET m == error.message
                    r == CASE kind = "default" -> DefaultRetryCondition(m)
                           [] kind = "api" -> ApiRetryCondition(m)
                           [] kind = "login" -> LoginRetryCondition(m)
                IN  IF r THEN "true" ELSE "false"

\* faulty variant: maxDelay is always the default
Destructure_IgnoresMaxDelay(o) ==
    [maxAttempts |-> IF "maxAttempts" \in o.supplied THEN o.maxAttempts ELSE 3,
     baseDelay |-> IF "baseDelay" \in o.supplied THEN o.baseDelay ELSE 1000,
     maxDelay |-> 10000,
     backoffMultiplier |-> IF "backoffMultiplier" \in o.supplied
                           THEN o.backoffMultiplier ELSE 2,
     retryCondition |-> IF "retryCondition" \in o.supplied
                        THEN o.retryCondition ELSE "default"]

\* the destructuring of options with its defaults
Destructure(o) ==
    [maxAttempts |-> IF "maxAttempts" \in o.supplied THEN o.maxAttempts ELSE 3,
     baseDelay |-> IF "baseDelay" \in o.supplied THEN o.baseDelay ELSE 1000,
     maxDelay |-> IF "maxDelay" \in o.supplied THEN o.maxDelay ELSE 10000,
     backoffMultiplier |-> IF "backoffMultiplier" \in o.supplied
                           THEN o.backoffMultiplier ELSE 2,
     retryCondition |-> IF "retryCondition" \in o.supplied
                        THEN o.retryCondition ELSE "default"]

RECURSIVE Pow(_, _)
Pow(b, e) == IF e = 0 THEN 1 ELSE b * Pow(b, e - 1)

Min(a, b) == IF a < b THEN a ELSE b

\* faulty variant: the exponent is attempt instead of attempt - 1
BackoffDelay_ExponentOffByOne(o, attempt) ==
    Min(o.baseDelay * Pow(o.backoffMultiplier, attempt), o.maxDelay)

\* Math.min(baseDelay * Math.pow(backoffMultiplier, attempt - 1), maxDelay)
BackoffDelay(o, attempt) ==
    Min(o.baseDelay * Pow(o.backoffMultiplier, attempt - 1), o.maxDelay)

\* the attempts argument of the RetryError that withRetry throws
RetryErrorAttempts(o, attempt) == o.maxAttempts

\* the statements after the loop: throw new RetryError(...)
ThrowRetryError(f, o, lastError) ==
    [f EXCEPT !.pc = "threw",
              !.lastError = lastError,
              !.error = RetryError(
                  <<"Operation failed after ">> \o NumStr(o.maxAttempts)
                      \o <<" attempts: ">> \o MessageText(lastError),
                  RetryErrorAttempts(o, f.attempt),
                  lastError)]

\* faulty variant: a delay is waited before the first attempt
withRetryBegin_DelaysFirst ==
    [pc |-> "delay", attempt |-> 0, lastError |-> NoError, delay |-> 1000,
     value |-> 0, error |-> NoError]

\* attempt = 1, first iteration: operation() is invoked and awaited
withRetryBegin ==
    [pc |-> "operation", attempt |-> 1, lastError |-> NoError, delay |-> 0,
     value |-> 0, error |-> NoError]

\* faulty variant: the return is missing, control falls through to the backoff
withRetryResolved_FallsThrough(f, result) ==
    [f EXCEPT !.pc = "delay", !.value = result]

\* await operation() resolved: return result
withRetryResolved(f, result) ==
    [f EXCEPT !.pc = "returned", !.value = result]

\* faulty variant: the loop gives up one attempt early
withRetryRejected_BreaksEarly(f, o, error) ==
    IF IsNullish(error)
    THEN [f EXCEPT !.pc = "threw", !.lastError = error, !.error = TypeError]
    ELSE IF f.attempt >= o.maxAttempts - 1
    THEN ThrowRetryError(f, o, error)
    ELSE LET r == retryCondition(o.retryCondition, error)
         IN  CASE r = "throws" ->
                    [f EXCEPT !.pc = "threw", !.lastError = error,
                              !.error = TypeError]
               [] r = "false" -> ThrowRetryError(f, o, error)
               [] r = "true" ->
                    [f EXCEPT !.pc = "delay", !.lastError = error,
                              !.delay = BackoffDelay(o, f.attempt)]

\* faulty variant: the answer of the predicate is ignored
withRetryRejected_IgnoresPredicate(f, o, error) ==
    IF IsNullish(error)
    THEN [f EXCEPT !.pc = "threw", !.lastError = error, !.error = TypeError]
    ELSE IF f.attempt = o.maxAttempts
    THEN ThrowRetryError(f, o, error)
    ELSE [f EXCEPT !.pc = "delay", !.lastError = error,
                   !.delay = BackoffDelay(o, f.attempt)]

\* faulty variant: the promise of the delay is not awaited
withRetryRejected_NoAwaitDelay(f, o, error) ==
    IF IsNullish(error)
    THEN [f EXCEPT !.pc = "threw", !.lastError = error, !.error = TypeError]
    ELSE IF f.attempt = o.maxAttempts
    THEN ThrowRetryError(f, o, error)
    ELSE LET r == retryCondition(o.retryCondition, error)
         IN  CASE r = "throws" ->
                    [f EXCEPT !.pc = "threw", !.lastError = error,
                              !.error = TypeError]
               [] r = "false" -> ThrowRetryError(f, o, error)
               [] r = "true" ->
                    [f EXCEPT !.pc = "operation", !.lastError = error,
                              !.attempt = f.attempt + 1,
                              !.delay = BackoffDelay(o, f.attempt)]

\* await operation() rejected: the catch block
withRetryRejected(f, o, error) ==
    IF IsNullish(error)
    THEN \* lastError.message in the logger.warn arguments throws
         [f EXCEPT !.pc = "threw", !.lastError = error, !.error = TypeError]
    ELSE IF f.attempt = o.maxAttempts
    THEN ThrowRetryError(f, o, error)
    ELSE LET r == retryCondition(o.retryCondition, error)
         IN  CASE r = "throws" ->
                    [f EXCEPT !.pc = "threw", !.lastError = error,
                              !.error = TypeError]
               [] r = "false" -> ThrowRetryError(f, o, error)
               [] r = "true" ->
                    [f EXCEPT !.pc = "delay", !.lastError = error,
                              !.delay = BackoffDelay(o, f.attempt)]

\* the setTimeout promise resolved: attempt++, operation() is invoked again
withRetryTimeout(f) ==
    [f EXCEPT !.pc = "operation", !.attempt = f.attempt + 1]

\* operation() is invoked in the step from frame f to frame g
Invoked(f, g) ==
    g.pc = "operation" /\ (f.pc # "operation" \/ f.attempt # g.attempt)

(***************************************************************************)
(* SpecRetry: one call of withRetry                                        *)
(***************************************************************************)
NotCalled == [pc |-> "notCalled", attempt |-> 0, lastError |-> NoError,
              delay |-> 0, value |-> 0, error |-> NoError]

OptionFields == {"maxAttempts", "baseDelay", "maxDelay", "backoffMultiplier",
                 "retryCondition"}

OptionSpace ==
    [supplied : SUBSET OptionFields,
     maxAttempts : 1..MaxAttemptsBound,
     baseDelay : {1000, 300},
     maxDelay : {8000, 2500},
     backoffMultiplier : {2, 3},
     retryCondition : {"always", "never", "api"}]

\* an omitted field has no value: only one representative is kept
WellFormedOptions(o) ==
    /\ "maxAttempts" \notin o.supplied => o.maxAttempts = 1
    /\ "baseDelay" \notin o.supplied => o.baseDelay = 1000
    /\ "maxDelay" \notin o.supplied => o.maxDelay = 8000
    /\ "backoffMultiplier" \notin o.supplied => o.backoffMultiplier = 2
    /\ "retryCondition" \notin o.supplied => o.retryCondition = "always"

\* what the operation of the n-th invocation can reject with
Throwables(n) ==
    {Error(<<"fetch", " failed">>, n), Error(<<"Invalid input">>, n),
     NonError(n), Nullish(n)}

opts == Destructure(options)

\* nothing was caught
NotHandling ==
    [thrown |-> NoError, nodeEnv |-> "production", classified |-> NoError,
     again |-> NoError, userMessage |-> <<>>, response |-> <<>>]

\* no chat request was received
NotChatting ==
    [pc |-> "idle", stage |-> "none",
     intent |-> [intent |-> "unknown", destination |-> FALSE, duration |-> FALSE],
     retry |-> NotCalled, wakeAt |-> 0, routed |-> FALSE,
     fetches |-> 0, routeAnswers |-> 0, only5xx |-> TRUE, downstream |-> 0,
     fetchError |-> NoError,
     outcome |-> [kind |-> "none"], response |-> <<>>]

\* no message was exchanged
NoConversation ==
    [pc |-> "idle", messages |-> <<>>, turns |-> 0, asked |-> 0,
     step |-> "none", destination |-> <<>>, duration |-> <<>>,
     toolCalls |-> 0, toolResult |-> <<>>]

ClientIdle ==
    /\ handling = NotHandling
    /\ chat = NotChatting
    /\ guided = NoConversation
    /\ cachedToken = 0
    /\ tokenExpiry = 0
    /\ env = [email |-> TRUE, password |-> TRUE]
    /\ procs = <<>>
    /\ issued = 0
    /\ issuedAt = 0
    /\ revoked = {}
    /\ calls = 0

InitRetry ==
    /\ now = 0
    /\ options \in {o \in OptionSpace : WellFormedOptions(o)}
    /\ call = NotCalled
    /\ invocations = 0
    /\ inFlight = 0
    /\ delays = <<>>
    /\ rejections = <<>>
    /\ readyAt = 0
    /\ ClientIdle

\* bookkeeping of the invocations of operation() over a step of the frame
Observe(f, g) ==
    /\ invocations' = invocations + (IF Invoked(f, g) THEN 1 ELSE 0)
    /\ inFlight' = (IF f.pc = "operation" THEN inFlight - 1 ELSE inFlight)
                   + (IF Invoked(f, g) THEN 1 ELSE 0)

CallWithRetry ==
    /\ call.pc = "notCalled"
    /\ call' = withRetryBegin
    /\ Observe(call, call')
    /\ UNCHANGED <<now, options, delays, rejections, readyAt>>
    /\ UNCHANGED <<clientVars, errorVars, chatVars>>

OperationResolves ==
    /\ call.pc = "operation"
    /\ \E d \in OperationTimes : now' = now + d
    /\ call' = withRetryResolved(call, invocations)
    /\ Observe(call, call')
    /\ UNCHANGED <<options, delays, rejections, readyAt>>
    /\ UNCHANGED <<clientVars, errorVars, chatVars>>

OperationRejects ==
    /\ call.pc = "operation"
    /\ \E v \in Throwables(invocations) :
         /\ call' = withRetryRejected(call, opts, v)
         /\ rejections' = Append(rejections, v)
    /\ Observe(call, call')
    /\ \E d \in OperationTimes : now' = now + d
    /\ readyAt' = IF call'.pc = "delay" THEN now' + call'.delay ELSE readyAt
    /\ UNCHANGED <<options, delays>>
    /\ UNCHANGED <<clientVars, errorVars, chatVars>>

\* the timer of the backoff delay fires, not before the delay has elapsed
DelayElapses ==
    /\ call.pc = "delay"
    /\ now' = IF now < readyAt THEN readyAt ELSE now
    /\ delays' = Append(delays, call.delay)
    /\ call' = withRetryTimeout(call)
    /\ Observe(call, call')
    /\ UNCHANGED <<options, rejections, readyAt>>
    /\ UNCHANGED <<clientVars, errorVars, chatVars>>

NextRetry ==
    \/ CallWithRetry
    \/ OperationResolves
    \/ OperationRejects
    \/ DelayElapses

SpecRetry == InitRetry /\ [][NextRetry]_vars

(***************************************************************************)
(* Claims about withRetry (checked under SpecRetry)                        *)
(***************************************************************************)
\* the value is an error object or other non-null value, and the predicate
\* of the call answers true for it
Accepted(v) ==
    ~IsNullish(v) /\ retryCondition(opts.retryCondition, v) = "true"

AllAccepted == \A i \in 1..Len(rejections) : Accepted(rejections[i])

\* C1: when every attempt fails with an error the predicate accepts, the
\* operation is invoked exactly maxAttempts times and withRetry then throws
\* a RetryError whose attempts is maxAttempts and whose lastError is the
\* error of the last invocation.
C1_ExhaustedRetries ==
    /\ invocations <= opts.maxAttempts
    /\ (AllAccepted /\ Len(rejections) = opts.maxAttempts) =>
          /\ call.pc = "threw"
          /\ invocations = opts.maxAttempts
          /\ call.error.type = "RetryError"
          /\ call.error.attempts = opts.maxAttempts
          /\ call.error.lastError = rejections[opts.maxAttempts]
          /\ call.error.lastError.id = opts.maxAttempts
    /\ (AllAccepted /\ call.pc = "threw") => Len(rejections) = opts.maxAttempts

C1_Witness ==
    /\ call.pc = "threw"
    /\ AllAccepted
    /\ opts.maxAttempts = 3
    /\ invocations = 3
    /\ call.error.type = "RetryError"

\* C2: when the predicate answers false for the error of the first attempt,
\* the operation is invoked exactly once, no delay is waited, and withRetry
\* throws, whatever maxAttempts is.
FirstRefused ==
    /\ Len(rejections) >= 1
    /\ retryCondition(opts.retryCondition, rejections[1]) = "false"

C2_NonRetryableShortCircuit ==
    FirstRefused =>
        /\ call.pc = "threw"
        /\ invocations = 1
        /\ delays = <<>>
        /\ inFlight = 0

C2_Witness ==
    /\ FirstRefused
    /\ opts.maxAttempts = MaxAttemptsBound
    /\ rejections[1].type = "Error"
    /\ call.pc = "threw"

\* C3: the attempts field of a RetryError thrown by withRetry is the number
\* of times the operation was invoked in that call.
C3_TrueAttemptCount ==
    (call.pc = "threw" /\ call.error.type = "RetryError") =>
        call.error.attempts = invocations

\* C4: when the operation succeeds on attempt k, withRetry returns the
\* result of that k-th invocation at once: k invocations, k-1 failures,
\* k-1 delays, nothing in flight and nothing invoked afterwards.
Resolves == call.pc = "operation" /\ rejections' = rejections /\ call' # call

C4_ReturnsOnSuccess ==
    /\ [](call.pc = "returned" =>
            /\ call.value = invocations
            /\ invocations = Len(rejections) + 1
            /\ invocations <= opts.maxAttempts
            /\ Len(delays) = Len(rejections)
            /\ AllAccepted
            /\ inFlight = 0)
    /\ [][Resolves =>
            /\ call'.pc = "returned"
            /\ call'.value = invocations
            /\ invocations' = invocations
            /\ delays' = delays]_vars
    /\ [][call.pc = "returned" =>
            /\ call' = call
            /\ invocations' = invocations
            /\ delays' = delays]_vars

C4_Witness ==
    /\ call.pc = "returned"
    /\ invocations = 3
    /\ call.value = 3
    /\ Len(rejections) = 2

\* C5: the delay waited between failed attempt k and attempt k+1 is
\* min(baseDelay * backoffMultiplier^(k-1), maxDelay); for 1000, 2, 8000 the
\* delays before attempts 2..5 are 1000, 2000, 4000, 8000; no delay
\* exceeds maxDelay.
ExpectedDelays_1000_2_8000 == <<1000, 2000, 4000, 8000>>

C5_BackoffDelays ==
    /\ \A k \in 1..Len(delays) :
          LET grown == opts.baseDelay * Pow(opts.backoffMultiplier, k - 1)
          IN  /\ delays[k] = (IF grown < opts.maxDelay THEN grown ELSE opts.maxDelay)
              /\ delays[k] <= opts.maxDelay
    /\ (opts.baseDelay = 1000 /\ opts.backoffMultiplier = 2 /\ opts.maxDelay = 8000) =>
          \A k \in 1..Len(delays) :
              k <= 4 => delays[k] = ExpectedDelays_1000_2_8000[k]

C5_Witness ==
    /\ opts.baseDelay = 1000
    /\ opts.backoffMultiplier = 2
    /\ opts.maxDelay = 8000
    /\ delays = <<1000, 2000, 4000, 8000>>

\* C6: every failure that leaves withRetry is a RetryError, whatever the
\* operation rejects with and whatever the predicate answers.
C6_OnlyRetryErrorEscapes ==
    call.pc = "threw" => call.error.type = "RetryError"

\* C7: attempts are strictly sequential: at most one invocation is in
\* flight, and invocation N+1 starts only after invocation N has failed and
\* the backoff delay computed for N has fully elapsed since that failure.
C7_Sequential ==
    /\ [](inFlight <= 1)
    /\ [][(invocations' > invocations /\ invocations >= 1) =>
            /\ inFlight = 0
            /\ invocations' = invocations + 1
            /\ Len(rejections) = invocations
            /\ Len(delays') = invocations
            /\ now' >= readyAt]_vars

C7_Witness ==
    /\ invocations = 3
    /\ inFlight = 1
    /\ Len(delays) = 2
    /\ now >= readyAt

(***************************************************************************)
(* Error model: AppError, APIError, handleError                            *)
(***************************************************************************)
AppError(code, message, statusCode, isOperational) ==
    [type |-> "AppError", name |-> "AppError", code |-> code,
     message |-> message, statusCode |-> statusCode,
     isOperational |-> isOperational]

APIError(code, message, statusCode) ==
    [type |-> "AppError", name |-> "APIError", code |-> code,
     message |-> message, statusCode |-> statusCode, isOperational |-> TRUE]

\* faulty variant: the subclasses of AppError are not recognised
IsAppError_ExactClass(e) == e.type = "AppError" /\ e.name = "AppError"

\* error instanceof AppError
IsAppError(e) == e.type = "AppError"

\* error instanceof Error
IsErrorInstance(e) == e.type \in {"Error", "AppError", "RetryError", "TypeError"}

\* new ValidationError(message)
ValidationError(message) ==
    [type |-> "AppError", name |-> "ValidationError",
     code |-> "DATA_VALIDATION_ERROR", message |-> message, statusCode |-> 400,
     isOperational |-> TRUE]

\* faulty variant: the status in the message is looked for first
ClassifyError_AuthenticationFirst(m) ==
    IF includes(m, <<"4", "0", "1">>) \/ includes(m, <<"unauthorized">>)
    THEN APIError("API_AUTHENTICATION_FAILED",
                  <<"Authentication failed", ": ">> \o m, 401)
    ELSE IF includes(m, <<"fetch">>)
    THEN APIError("API_REQUEST_FAILED", <<"Network request failed: ">> \o m, 503)
    ELSE IF includes(m, <<"timeout">>)
    THEN APIError("API_TIMEOUT", <<"Request timeout: ">> \o m, 408)
    ELSE IF includes(m, <<"4", "2", "9">>) \/ includes(m, <<"rate limit">>)
    THEN APIError("API_RATE_LIMIT_EXCEEDED", <<"Rate limit exceeded: ">> \o m, 429)
    ELSE AppError("SYSTEM_RESOURCE_ERROR", m, 500, TRUE)

\* handleError of an Error that is not an AppError, by its message m
ClassifyError(m) ==
    IF includes(m, <<"fetch">>)
    THEN APIError("API_REQUEST_FAILED", <<"Network request failed: ">> \o m, 503)
    ELSE IF includes(m, <<"timeout">>)
    THEN APIError("API_TIMEOUT", <<"Request timeout: ">> \o m, 408)
    ELSE IF includes(m, <<"4", "0", "1">>) \/ includes(m, <<"unauthorized">>)
    THEN APIError("API_AUTHENTICATION_FAILED",
                  <<"Authentication failed", ": ">> \o m, 401)
    ELSE IF includes(m, <<"4", "2", "9">>) \/ includes(m, <<"rate limit">>)
    THEN APIError("API_RATE_LIMIT_EXCEEDED", <<"Rate limit exceeded: ">> \o m, 429)
    ELSE AppError("SYSTEM_RESOURCE_ERROR", m, 500, TRUE)

\* faulty variant: the error made of a value that is no Error is operational
UnknownError_Operational ==
    AppError("SYSTEM_RESOURCE_ERROR", <<"An unknown error occurred">>, 500, TRUE)

\* handleError of a value that is not an Error
UnknownError ==
    AppError("SYSTEM_RESOURCE_ERROR", <<"An unknown error occurred">>, 500, FALSE)

handleError(error) ==
    IF IsAppError(error) THEN error
    ELSE IF IsErrorInstance(error) THEN ClassifyError(error.message)
    ELSE UnknownError

\* enum ErrorCode
ErrorCodes ==
    {"API_AUTHENTICATION_FAILED", "API_RATE_LIMIT_EXCEEDED", "API_REQUEST_FAILED",
     "API_TIMEOUT", "AI_MODEL_ERROR", "AI_PROMPT_ERROR",
     "AI_RESPONSE_PARSING_ERROR", "DATA_VALIDATION_ERROR", "DATA_NOT_FOUND",
     "DATA_PROCESSING_ERROR", "SYSTEM_CONFIGURATION_ERROR",
     "SYSTEM_RESOURCE_ERROR", "USER_INPUT_INVALID", "USER_UNAUTHORIZED"}

\* faulty variant: the switch has no default branch
createUserFriendlyMessage_NoDefault(error) ==
    CASE error.code = "API_AUTHENTICATION_FAILED" ->
           <<"Authentication Issue: There's a temporary issue with our travel database connection. Please try again in a moment.">>
      [] error.code = "API_RATE_LIMIT_EXCEEDED" ->
           <<"Service Busy: Our travel system is experiencing high demand. Please wait a moment and try again.">>
      [] error.code = "API_TIMEOUT" ->
           <<"Connection Timeout: The request is taking longer than expected. Please try again with a simpler query.">>
      [] error.code = "DATA_NOT_FOUND" ->
           <<"No Results Found: I couldn't find any packages matching your criteria. Try adjusting your search parameters.">>
      [] error.code = "USER_INPUT_INVALID" ->
           <<"Invalid Input: Please check your request and try again with valid travel details.">>
      [] error.code = "AI_MODEL_ERROR" ->
           <<"AI Service Temporarily Unavailable: Our AI assistant is briefly offline. Please try again in a moment.">>
      [] OTHER -> <<>>

\* the text for the end user, a message of one piece
createUserFriendlyMessage(error) ==
    CASE error.code = "API_AUTHENTICATION_FAILED" ->
           <<"Authentication Issue: There's a temporary issue with our travel database connection. Please try again in a moment.">>
      [] error.code = "API_RATE_LIMIT_EXCEEDED" ->
           <<"Service Busy: Our travel system is experiencing high demand. Please wait a moment and try again.">>
      [] error.code = "API_TIMEOUT" ->
           <<"Connection Timeout: The request is taking longer than expected. Please try again with a simpler query.">>
      [] error.code = "DATA_NOT_FOUND" ->
           <<"No Results Found: I couldn't find any packages matching your criteria. Try adjusting your search parameters.">>
      [] error.code = "USER_INPUT_INVALID" ->
           <<"Invalid Input: Please check your request and try again with valid travel details.">>
      [] error.code = "AI_MODEL_ERROR" ->
           <<"AI Service Temporarily Unavailable: Our AI assistant is briefly offline. Please try again in a moment.">>
      [] OTHER ->
           <<"Service Temporarily Unavailable: We're experiencing a brief technical issue. Please try again shortly. Great travel experiences are worth the wait!">>

(***************************************************************************)
(* The API client                                                          *)
(***************************************************************************)
\* the requests served by the process
Procs == DOMAIN procs

\* the public operations a request can call
Entries == {"getAccessToken", "makeAuthenticatedRequest"}

\* the operations of the client that fetch packages
PackageEntries == {"getPackages", "getPackageById"}

\* the exported operations of the client
PublicEntries == PackageEntries \cup {"getAccessToken"}

\* const limit = 270 in getPackages
PageLimit == 270

\* the number of items in a page answered by the list endpoint
PageSizes == {0, 40, PageLimit}

\* tokenExpiry = Date.now() + 3600000
TokenLifetime == 3600000

\* the clock advances in steps of these sizes, up to MaxTime
TickSteps == {1800000, 1799000}
MaxTime == 3700000

\* what the login endpoint and the data endpoint can answer; 0 stands for a
\* fetch that rejects (network failure)
LoginStatuses == {0, 200, 401, 403, 500}
DataStatuses == {0, 200, 401, 403, 404, 429, 503}

\* the body of an ok login response: JSON with or without accessToken, or
\* a body that response.json() cannot parse
LoginBodies == {"token", "noToken", "invalid"}

\* the rejection of response.json() on an unparsable body
JsonSyntaxError == Error(<<"Unexpected end of JSON input">>, 0)

\* response.ok
ok(status) == status >= 200 /\ status <= 299

\* API_CONFIG.retryOptions
ApiRetryOptions ==
    Destructure([supplied |-> OptionFields, maxAttempts |-> 3, baseDelay |-> 1000,
                 maxDelay |-> 8000, backoffMultiplier |-> 2,
                 retryCondition |-> "api"])

\* { ...API_CONFIG.retryOptions, retryCondition: ... } in getAccessToken
LoginRetryOptions == [ApiRetryOptions EXCEPT !.retryCondition = "login"]

\* the rejection of fetch on a network failure
FetchFailed == Error(<<"fetch", " failed">>, 0)

\* what the operation passed to withRetry by getAccessToken throws
LoginFailure(status) ==
    IF status = 0 THEN FetchFailed
    ELSE IF status = 401 \/ status = 403
    THEN AppError("API_AUTHENTICATION_FAILED",
                  <<"Authentication failed", ": Invalid credentials (">>
                      \o NumStr(status) \o <<")">>,
                  status, TRUE)
    ELSE Error(<<"Login failed with ", "status", ": ">> \o NumStr(status), 0)

\* faulty variant: the message of the generic error lacks the word status
DataFailure_OmitsStatus(status) ==
    IF status = 0 THEN FetchFailed
    ELSE IF status = 401
    THEN AppError("API_AUTHENTICATION_FAILED",
                  <<"Authentication token expired or invalid">>, 401, TRUE)
    ELSE IF status = 429
    THEN AppError("API_RATE_LIMIT_EXCEEDED",
                  <<"API ", "rate limit", " exceeded">>, 429, TRUE)
    ELSE Error(<<"API request failed: ">> \o NumStr(status), 0)

\* what the operation passed to withRetry by makeAuthenticatedRequest throws
DataFailure(status) ==
    IF status = 0 THEN FetchFailed
    ELSE IF status = 401
    THEN AppError("API_AUTHENTICATION_FAILED",
                  <<"Authentication token expired or invalid">>, 401, TRUE)
    ELSE IF status = 429
    THEN AppError("API_RATE_LIMIT_EXCEEDED",
                  <<"API ", "rate limit", " exceeded">>, 429, TRUE)
    ELSE Error(<<"API request failed with ", "status", ": ">> \o NumStr(status), 0)

\* faulty variant: the 401 branch does not clear the cache
CacheAfterData_NoClear(status, token, expiry) ==
    [token |-> token, expiry |-> expiry]

\* faulty variant: a rate-limited response clears the cache as well
CacheAfterData_ClearsOn429(status, token, expiry) ==
    IF status = 401 \/ status = 429 THEN [token |-> 0, expiry |-> 0]
    ELSE [token |-> token, expiry |-> expiry]

\* the token cache after a data response: cleared on 401
CacheAfterData(status, token, expiry) ==
    IF status = 401 THEN [token |-> 0, expiry |-> 0]
    ELSE [token |-> token, expiry |-> expiry]

\* faulty variant: the expiry of the cached token is not consulted
TokenValid_IgnoresExpiry(token, expiry, t) == token # 0

\* faulty variant: the cache is not tested for holding a token
TokenValid_IgnoresToken(token, expiry, t) == t < expiry

\* cachedToken && Date.now() < tokenExpiry
TokenValid(token, expiry, t) == token # 0 /\ t < expiry

\* faulty variant: only the email is required
CredentialsMissing_EmailOnly(e) == ~e.email

\* !email || !password
CredentialsMissing(e) == ~e.email \/ ~e.password

ConfigurationError ==
    AppError("SYSTEM_CONFIGURATION_ERROR",
             <<"TripXplo API credentials are missing from environment variables">>,
             500, TRUE)

NoTokenError ==
    AppError("API_AUTHENTICATION_FAILED",
             <<"No access token received from TripXplo API">>, 500, TRUE)

\* the catch block of getAccessToken
getAccessTokenCatch(error) ==
    IF IsAppError(error) THEN error ELSE handleError(error)

\* faulty variant: the catch block rethrows what it caught
getPackagesCatch_Rethrows(error) == error

\* the catch block of getPackages
getPackagesCatch(error) ==
    IF IsAppError(error) THEN error ELSE handleError(error)

\* faulty variant: the catch block rethrows what it caught
getPackageByIdCatch_Rethrows(error) == error

\* the catch block of getPackageById
getPackageByIdCatch(error) ==
    IF IsAppError(error) THEN error ELSE handleError(error)

\* an error raised while the operation entry runs, as its caller sees it:
\* getPackages and getPackageById catch it; makeAuthenticatedRequest has no
\* catch block; getAccessToken has caught it already
Surface(entry, error) ==
    CASE entry = "getPackages" -> getPackagesCatch(error)
      [] entry = "getPackageById" -> getPackageByIdCatch(error)
      [] OTHER -> error

NoOutcome == [kind |-> "none"]
Returned(v) == [kind |-> "returned", value |-> v]
Threw(e) == [kind |-> "threw", error |-> e]

\* One request.  pc is its suspension point; token is the local variable of
\* makeAuthenticatedRequest; retry is the frame of the withRetry call in
\* progress.  logins and requests count the login and data HTTP requests
\* the current (or last) call has sent; tokenIssuedAt and sentAt record when
\* the token in use was issued and when the data request in flight was sent.
\* no response yet
NoAnswers == [first |-> <<>>, same |-> TRUE]

\* one more response, of the given status
Answered(answers, status) ==
    IF answers.first = <<>> THEN [first |-> <<status>>, same |-> TRUE]
    ELSE [answers EXCEPT !.same = @ /\ answers.first = <<status>>]

\* every response so far had the given status
Persistently(answers, status) ==
    answers.first = <<status>> /\ answers.same

\* offset and allPackages are the local variables of getPackages (a page
\* of n items fetched at offset o is the block [offset |-> o, size |-> n]);
\* authenticatedRequests counts the calls of makeAuthenticatedRequest and
\* requested lists the limit and offset of the urls getPackages passed to it;
\* pageSizes lists the sizes of the pages the list endpoint has answered;
\* loginAnswers and answers record the statuses answered to the login
\* requests and to the data requests of the authenticated request in
\* progress: the first one, and whether all of them were the same.
IdleProc ==
    [pc |-> "idle", entry |-> "none", token |-> 0, tokenIssuedAt |-> 0,
     retry |-> NotCalled, wakeAt |-> 0, sentAt |-> 0,
     logins |-> 0, requests |-> 0, outcome |-> NoOutcome,
     authenticatedRequests |-> 0,
     offset |-> 0, allPackages |-> <<>>, pageSizes |-> <<>>,
     requested |-> <<>>,
     loginAnswers |-> NoAnswers, answers |-> NoAnswers]

\* the call of a request ends: it returned a value or threw an error
Complete(pr, outcome) ==
    [pr EXCEPT !.pc = "idle", !.token = 0, !.tokenIssuedAt = 0,
               !.retry = NotCalled, !.wakeAt = 0, !.sentAt = 0,
               !.outcome = outcome]

\* timers fire in the order of their due times
EarliestTimer(p) ==
    \A q \in Procs :
        procs[q].pc \in {"loginDelay", "dataDelay"} =>
            procs[p].wakeAt <= procs[q].wakeAt

Init ==
    /\ now = 0
    /\ options = [supplied |-> {}, maxAttempts |-> 1, baseDelay |-> 1000,
                  maxDelay |-> 8000, backoffMultiplier |-> 2,
                  retryCondition |-> "always"]
    /\ call = NotCalled
    /\ invocations = 0
    /\ inFlight = 0
    /\ delays = <<>>
    /\ rejections = <<>>
    /\ readyAt = 0
    /\ cachedToken = 0
    /\ tokenExpiry = 0
    /\ env \in [email : BOOLEAN, password : BOOLEAN]
    /\ procs = [p \in {"A"} |-> IdleProc]
    /\ issued = 0
    /\ issuedAt = 0
    /\ revoked = {}
    /\ calls = 0
    /\ handling = NotHandling
    /\ chat = NotChatting
    /\ guided = NoConversation

\* getAccessToken returned token (issued at time t) to the request pr:
\* called on its own, the call returns it; in makeAuthenticatedRequest,
\* withRetry starts and its first fetch carries the token.
WithToken(pr, token, t) ==
    IF pr.entry = "getAccessToken"
    THEN Complete(pr, Returned(token))
    ELSE [pr EXCEPT !.pc = "dataFetch", !.token = token, !.tokenIssuedAt = t,
                    !.retry = withRetryBegin, !.sentAt = now,
                    !.requests = pr.requests + 1]

\* the call of a request ends with an error
Throws(pr, error) == Complete(pr, Threw(Surface(pr.entry, error)))

\* getAccessToken is called, directly or by makeAuthenticatedRequest: the
\* cached token while VALID, else the configuration error or a login
callGetAccessToken(pr) ==
    LET q == [pr EXCEPT !.logins = 0, !.loginAnswers = NoAnswers,
                        !.requests = 0, !.answers = NoAnswers,
                        !.authenticatedRequests =
                            IF pr.entry = "getAccessToken" THEN @ ELSE @ + 1,
                        !.requested =
                            IF pr.entry = "getPackages"
                            THEN Append(@, [limit |-> PageLimit,
                                            offset |-> pr.offset])
                            ELSE @]
    IN  IF TokenValid(cachedToken, tokenExpiry, now)
        THEN WithToken(q, cachedToken, issuedAt)
        ELSE IF CredentialsMissing(env)
        THEN Throws(q, ConfigurationError)
        ELSE [q EXCEPT !.pc = "loginFetch", !.retry = withRetryBegin,
                       !.logins = 1]

\* a request calls one of the operations of the client
StartCall(p, entry) ==
    /\ procs[p].pc = "idle"
    /\ calls < MaxCalls
    /\ calls' = calls + 1
    /\ procs' = [procs EXCEPT ![p] =
           callGetAccessToken([IdleProc EXCEPT !.entry = entry])]
    /\ UNCHANGED <<now, cachedToken, tokenExpiry, env, issued, issuedAt, revoked>>
    /\ UNCHANGED <<retryVars, errorVars, chatVars>>

\* a request calls one of the exported operations of the client
StartPackageCall(p, entry) ==
    /\ procs[p].pc = "idle"
    /\ calls < MaxPackageCalls
    /\ calls' = calls + 1
    /\ procs' = [procs EXCEPT ![p] =
           callGetAccessToken([IdleProc EXCEPT !.entry = entry])]
    /\ UNCHANGED <<now, cachedToken, tokenExpiry, env, issued, issuedAt, revoked>>
    /\ UNCHANGED <<retryVars, errorVars, chatVars>>

\* faulty variant: getPackages answers a failed page with the items so far
AfterRejection_ReturnsPartial(pr, f, delayPc, rethrown) ==
    IF f.pc = "delay"
    THEN [pr EXCEPT !.pc = delayPc, !.retry = f, !.wakeAt = now + f.delay]
    ELSE IF pr.entry = "getPackages" /\ pr.allPackages # <<>>
    THEN [pr EXCEPT !.pc = "idle", !.token = 0, !.tokenIssuedAt = 0,
                    !.retry = NotCalled, !.wakeAt = 0, !.sentAt = 0,
                    !.outcome = [kind |-> "returned", value |-> pr.allPackages]]
    ELSE [pr EXCEPT !.pc = "idle", !.token = 0, !.tokenIssuedAt = 0,
                    !.retry = NotCalled, !.wakeAt = 0, !.sentAt = 0,
                    !.outcome = [kind |-> "threw", error |-> rethrown]]

\* the request after the operation of its withRetry call rejected: it waits
\* for the backoff timer, or withRetry threw and the call ends with the
\* error as the caller's catch block rethrows it
AfterRejection(pr, f, delayPc, rethrown) ==
    IF f.pc = "delay"
    THEN [pr EXCEPT !.pc = delayPc, !.retry = f, !.wakeAt = now + f.delay]
    ELSE Complete(pr, Threw(rethrown))

\* the login fetch settles
LoginResponse(p, status) ==
    /\ procs[p].pc = "loginFetch"
    /\ procs' = [procs EXCEPT ![p] =
         LET pr == [@ EXCEPT !.loginAnswers = Answered(@, status)]
         IN  IF ok(status)
             THEN [pr EXCEPT !.pc = "loginJson",
                             !.retry = withRetryResolved(procs[p].retry, status)]
             ELSE LET f == withRetryRejected(procs[p].retry, LoginRetryOptions,
                                             LoginFailure(status))
                  IN  AfterRejection(pr, f, "loginDelay",
                          Surface(pr.entry, getAccessTokenCatch(f.error)))]
    /\ UNCHANGED <<now, cachedToken, tokenExpiry, env, issued, issuedAt, revoked, calls>>
    /\ UNCHANGED <<retryVars, errorVars, chatVars>>

\* the backoff timer of the login fires: the login request is sent again
LoginTimer(p) ==
    /\ procs[p].pc = "loginDelay"
    /\ EarliestTimer(p)
    /\ now' = IF now < procs[p].wakeAt THEN procs[p].wakeAt ELSE now
    /\ procs' = [procs EXCEPT ![p] =
           [@ EXCEPT !.pc = "loginFetch", !.wakeAt = 0,
                     !.retry = withRetryTimeout(procs[p].retry),
                     !.logins = @ + 1]]
    /\ UNCHANGED <<cachedToken, tokenExpiry, env, issued, issuedAt, revoked, calls>>
    /\ UNCHANGED <<retryVars, errorVars, chatVars>>

\* tokens.accessToken of a parsed login body (0 = undefined)
AccessTokenOf(body, fresh) == IF body = "token" THEN fresh ELSE 0

\* faulty variant: the received token is not tested
MissingToken_NotChecked(token) == FALSE

\* !cachedToken
MissingToken(token) == token = 0

\* faulty variant: the lifetime is not added
ExpiryAfterLogin_Elapsed(t) == t

\* Date.now() + 3600000
ExpiryAfterLogin(t) == t + TokenLifetime

\* await response.json() of the login response settles: the cache is
\* written unless the body cannot be parsed
LoginJson(p, body) ==
    /\ procs[p].pc = "loginJson"
    /\ IF body = "invalid"
       THEN /\ procs' = [procs EXCEPT ![p] =
                   Throws(@, getAccessTokenCatch(JsonSyntaxError))]
            /\ UNCHANGED <<cachedToken, tokenExpiry, issued, issuedAt>>
       ELSE LET token == AccessTokenOf(body, issued + 1)
            IN  /\ cachedToken' = token
                /\ tokenExpiry' = ExpiryAfterLogin(now)
                /\ issued' = IF token = 0 THEN issued ELSE issued + 1
                /\ issuedAt' = IF token = 0 THEN 0 ELSE now
                /\ procs' = [procs EXCEPT ![p] =
                       IF MissingToken(token)
                       THEN Throws(@, getAccessTokenCatch(NoTokenError))
                       ELSE WithToken(@, token, now)]
    /\ UNCHANGED <<now, env, revoked, calls>>
    /\ UNCHANGED <<retryVars, errorVars, chatVars>>

\* the data fetch settles: makeAuthenticatedRequest returns the response
\* (getPackages and getPackageById then read its body) or withRetry goes on
DataResponse(p, status) ==
    /\ procs[p].pc = "dataFetch"
    /\ LET cache == CacheAfterData(status, cachedToken, tokenExpiry)
       IN  /\ cachedToken' = cache.token
           /\ tokenExpiry' = cache.expiry
           /\ issuedAt' = IF cache.token = 0 THEN 0 ELSE issuedAt
    /\ revoked' = IF status = 401 THEN revoked \cup {procs[p].token} ELSE revoked
    /\ procs' = [procs EXCEPT ![p] =
         LET pr == [@ EXCEPT !.answers = Answered(@, status)]
         IN  IF ok(status)
             THEN IF pr.entry = "makeAuthenticatedRequest"
                  THEN Complete(pr, Returned(
                           withRetryResolved(procs[p].retry, status).value))
                  ELSE [pr EXCEPT !.pc = "dataJson",
                           !.retry = withRetryResolved(procs[p].retry, status)]
             ELSE LET f == withRetryRejected(procs[p].retry, ApiRetryOptions,
                                             DataFailure(status))
                  IN  AfterRejection(pr, f, "dataDelay",
                                     Surface(pr.entry, f.error))]
    /\ UNCHANGED <<now, env, issued, calls>>
    /\ UNCHANGED <<retryVars, errorVars, chatVars>>

\* the backoff timer of the data request fires: the request is sent again
\* with the token read before the retry loop
DataTimer(p) ==
    /\ procs[p].pc = "dataDelay"
    /\ EarliestTimer(p)
    /\ now' = IF now < procs[p].wakeAt THEN procs[p].wakeAt ELSE now
    /\ procs' = [procs EXCEPT ![p] =
           [@ EXCEPT !.pc = "dataFetch", !.wakeAt = 0,
                     !.retry = withRetryTimeout(procs[p].retry),
                     !.sentAt = now', !.requests = @ + 1]]
    /\ UNCHANGED <<cachedToken, tokenExpiry, env, issued, issuedAt, revoked, calls>>
    /\ UNCHANGED <<retryVars, errorVars, chatVars>>

\* the bodies an ok data response can carry for the request pr: a page of
\* the list (full pages only before page MaxPages), a single record or
\* none, or a body that response.json() cannot parse
DataBodies(pr) ==
    {[kind |-> "invalid"]} \cup
    (IF pr.entry = "getPackages"
     THEN {[kind |-> "page", size |-> n] :
              n \in {m \in PageSizes :
                        m < PageLimit \/ Len(pr.pageSizes) + 1 < MaxPages}}
     ELSE {[kind |-> "record", found |-> b] : b \in BOOLEAN})

\* faulty variant: the loop stops before it keeps the items of a short page
AfterPage_DropsShortPage(pr, n) ==
    IF n < PageLimit
    THEN [stop |-> TRUE, allPackages |-> pr.allPackages, offset |-> pr.offset]
    ELSE [stop |-> FALSE,
          allPackages |-> Append(pr.allPackages, [offset |-> pr.offset, size |-> n]),
          offset |-> pr.offset + PageLimit]

\* faulty variant: the loop gives up after two pages
AfterPage_CapsPages(pr, n) ==
    IF n = 0
    THEN [stop |-> TRUE, allPackages |-> pr.allPackages, offset |-> pr.offset]
    ELSE LET all == Append(pr.allPackages, [offset |-> pr.offset, size |-> n])
         IN  IF n < PageLimit \/ pr.offset >= PageLimit
             THEN [stop |-> TRUE, allPackages |-> all, offset |-> pr.offset]
             ELSE [stop |-> FALSE, allPackages |-> all,
                   offset |-> pr.offset + PageLimit]

\* faulty variant: the offset is not advanced
AfterPage_KeepsOffset(pr, n) ==
    IF n = 0
    THEN [stop |-> TRUE, allPackages |-> pr.allPackages, offset |-> pr.offset]
    ELSE LET all == Append(pr.allPackages, [offset |-> pr.offset, size |-> n])
         IN  IF n < PageLimit
             THEN [stop |-> TRUE, allPackages |-> all, offset |-> pr.offset]
             ELSE [stop |-> FALSE, allPackages |-> all, offset |-> pr.offset]

\* the body of the loop of getPackages after a page of n items was read
AfterPage(pr, n) ==
    IF n = 0
    THEN [stop |-> TRUE, allPackages |-> pr.allPackages, offset |-> pr.offset]
    ELSE LET all == Append(pr.allPackages, [offset |-> pr.offset, size |-> n])
         IN  IF n < PageLimit
             THEN [stop |-> TRUE, allPackages |-> all, offset |-> pr.offset]
             ELSE [stop |-> FALSE, allPackages |-> all,
                   offset |-> pr.offset + PageLimit]

\* faulty variant: an absent record is reported as an error value
ResultOf_NoNull(found) == IF found THEN "package" ELSE "undefined"

\* data.result || null in getPackageById
ResultOf(found) == IF found THEN "package" ELSE "null"

\* await response.json() of a data response settles
DataJson(p, body) ==
    /\ procs[p].pc = "dataJson"
    /\ body \in DataBodies(procs[p])
    /\ procs' = [procs EXCEPT ![p] =
         CASE body.kind = "invalid" -> Throws(@, JsonSyntaxError)
           [] body.kind = "record" -> Complete(@, Returned(ResultOf(body.found)))
           [] body.kind = "page" ->
                LET a == AfterPage(@, body.size)
                    pr == [@ EXCEPT !.allPackages = a.allPackages,
                                    !.offset = a.offset,
                                    !.pageSizes = Append(@, body.size)]
                IN  IF a.stop THEN Complete(pr, Returned(pr.allPackages))
                    ELSE callGetAccessToken(pr)]
    /\ UNCHANGED <<now, cachedToken, tokenExpiry, env, issued, issuedAt, revoked, calls>>
    /\ UNCHANGED <<retryVars, errorVars, chatVars>>

\* time passes
Tick(d) ==
    /\ now + d <= MaxTime
    /\ now' = now + d
    /\ UNCHANGED <<clientVars, errorVars, chatVars>>
    /\ UNCHANGED <<retryVars, errorVars, chatVars>>

Next ==
    \/ \E p \in Procs, entry \in Entries : StartCall(p, entry)
    \/ \E p \in Procs, status \in LoginStatuses : LoginResponse(p, status)
    \/ \E p \in Procs : LoginTimer(p)
    \/ \E p \in Procs, body \in LoginBodies : LoginJson(p, body)
    \/ \E p \in Procs, status \in DataStatuses : DataResponse(p, status)
    \/ \E p \in Procs : DataTimer(p)
    \/ \E d \in TickSteps : Tick(d)

Spec == Init /\ [][Next]_vars

\* the requests call getAccessToken, getPackages and getPackageById
NextPackages ==
    \/ \E p \in Procs, entry \in PublicEntries : StartPackageCall(p, entry)
    \/ \E p \in Procs, status \in LoginStatuses : LoginResponse(p, status)
    \/ \E p \in Procs : LoginTimer(p)
    \/ \E p \in Procs, body \in LoginBodies : LoginJson(p, body)
    \/ \E p \in Procs, status \in DataStatuses : DataResponse(p, status)
    \/ \E p \in Procs : DataTimer(p)
    \/ \E p \in Procs : \E body \in DataBodies(procs[p]) : DataJson(p, body)
    \/ Tick(TokenLifetime)

SpecPackages == Init /\ [][NextPackages]_vars

\* the steps of a call in progress: a response arrives, a timer fires, a
\* body is read
Progress ==
    \/ \E p \in Procs, status \in LoginStatuses : LoginResponse(p, status)
    \/ \E p \in Procs : LoginTimer(p)
    \/ \E p \in Procs, body \in LoginBodies : LoginJson(p, body)
    \/ \E p \in Procs, status \in DataStatuses : DataResponse(p, status)
    \/ \E p \in Procs : DataTimer(p)
    \/ \E p \in Procs : \E body \in DataBodies(procs[p]) : DataJson(p, body)

\* every request sent is answered, every timer set fires
SpecPackagesFair == SpecPackages /\ WF_vars(Progress)

\* two requests over the one token cache
InitConcurrent ==
    /\ now = 0
    /\ options = [supplied |-> {}, maxAttempts |-> 1, baseDelay |-> 1000,
                  maxDelay |-> 8000, backoffMultiplier |-> 2,
                  retryCondition |-> "always"]
    /\ call = NotCalled
    /\ invocations = 0
    /\ inFlight = 0
    /\ delays = <<>>
    /\ rejections = <<>>
    /\ readyAt = 0
    /\ cachedToken = 0
    /\ tokenExpiry = 0
    /\ env = [email |-> TRUE, password |-> TRUE]
    /\ procs = [p \in {"A", "B"} |-> IdleProc]
    /\ issued = 0
    /\ issuedAt = 0
    /\ revoked = {}
    /\ calls = 0
    /\ handling = NotHandling
    /\ chat = NotChatting
    /\ guided = NoConversation

\* one of the concurrent requests calls getAccessToken
StartConcurrentCall(p) ==
    /\ procs[p].pc = "idle"
    /\ calls < MaxConcurrentCalls
    /\ calls' = calls + 1
    /\ procs' = [procs EXCEPT ![p] =
           callGetAccessToken([IdleProc EXCEPT !.entry = "getAccessToken"])]
    /\ UNCHANGED <<now, cachedToken, tokenExpiry, env, issued, issuedAt, revoked>>
    /\ UNCHANGED <<retryVars, errorVars, chatVars>>

NextConcurrent ==
    \/ \E p \in Procs : StartConcurrentCall(p)
    \/ \E p \in Procs, status \in LoginStatuses : LoginResponse(p, status)
    \/ \E p \in Procs : LoginTimer(p)
    \/ \E p \in Procs, body \in LoginBodies : LoginJson(p, body)
    \/ Tick(TokenLifetime)

SpecConcurrent == InitConcurrent /\ [][NextConcurrent]_vars

\* one of the concurrent requests calls makeAuthenticatedRequest
StartInterleavedRequest(p) ==
    /\ procs[p].pc = "idle"
    /\ calls < MaxConcurrentCalls
    /\ calls' = calls + 1
    /\ procs' = [procs EXCEPT ![p] =
           callGetAccessToken([IdleProc EXCEPT !.entry = "makeAuthenticatedRequest"])]
    /\ UNCHANGED <<now, cachedToken, tokenExpiry, env, issued, issuedAt, revoked>>
    /\ UNCHANGED <<retryVars, errorVars, chatVars>>

\* two authenticated requests interleave; the endpoints answer statuses
\* that are not retried
NextInterleaved ==
    \/ \E p \in Procs : StartInterleavedRequest(p)
    \/ \E p \in Procs, status \in {200, 401} : LoginResponse(p, status)
    \/ \E p \in Procs, body \in LoginBodies : LoginJson(p, body)
    \/ \E p \in Procs, status \in {200, 401, 429} : DataResponse(p, status)

SpecInterleaved == InitConcurrent /\ [][NextInterleaved]_vars

(***************************************************************************)
(* Claims about the token cache (checked under Spec)                       *)
(***************************************************************************)
\* the request p calls getAccessToken in this step
Calls(p) ==
    /\ calls' = calls + 1
    /\ procs[p].pc = "idle"
    /\ \A q \in Procs \ {p} : procs'[q] = procs[q]

\* a login request is sent by p in this step
LoginSent(p) ==
    procs'[p].pc = "loginFetch" /\
    procs'[p].logins = (IF procs[p].pc = "idle" THEN 0 ELSE procs[p].logins) + 1

\* the cache is in state VALID
Valid == cachedToken # 0 /\ now < tokenExpiry

\* C8, as stated: a getAccessToken call sends a login request exactly when
\* the cache is not VALID at call time.
C8_LoginIffNotValid ==
    [][\A p \in Procs : Calls(p) => (LoginSent(p) <=> ~Valid)]_vars

\* C8, amended: a getAccessToken call sends a login request exactly when
\* the cache is not VALID at call time and both credentials are configured;
\* in state VALID it yields the cached token without any login request (a
\* direct call returns it with no network call at all), so calls made less
\* than one hour after the login that cached the token send no login.
C8_LoginIffNotValidAndConfigured ==
    [][\A p \in Procs : Calls(p) =>
         /\ LoginSent(p) <=> (~Valid /\ env.email /\ env.password)
         /\ Valid =>
              /\ procs'[p].logins = 0
              /\ procs'[p].entry = "getAccessToken" =>
                   /\ procs'[p].pc = "idle"
                   /\ procs'[p].requests = 0
                   /\ procs'[p].outcome = Returned(cachedToken)
              /\ procs'[p].entry = "makeAuthenticatedRequest" =>
                   procs'[p].token = cachedToken
         /\ (cachedToken # 0 /\ now < issuedAt + TokenLifetime) =>
              procs'[p].logins = 0
         /\ (cachedToken = 0 \/ now >= issuedAt + TokenLifetime) =>
              procs'[p].outcome.kind # "returned"]_vars

\* a second call has returned the cached token without a login request
C8_Witness ==
    \E p \in Procs :
        /\ calls >= 2
        /\ now > 0
        /\ procs[p].entry = "getAccessToken"
        /\ procs[p].outcome = Returned(cachedToken)
        /\ cachedToken # 0
        /\ procs[p].logins = 0

\* C9, as stated: once a data request was answered 401, every
\* getAccessToken call that starts afterwards performs a fresh login and
\* does not return the token of that request from the cache.
C9_EveryLaterCallLogsIn ==
    [][\A p \in Procs : (Calls(p) /\ revoked # {}) =>
         /\ LoginSent(p)
         /\ (procs'[p].entry = "getAccessToken"
               /\ procs'[p].outcome.kind = "returned") =>
              procs'[p].outcome.value \notin revoked]_vars

\* the call of p ends in this step because its data request was answered 401
Answered401(p) ==
    /\ procs[p].pc = "dataFetch"
    /\ procs'[p].outcome.kind = "threw"
    /\ procs'[p].outcome.error.type = "RetryError"
    /\ procs'[p].outcome.error.lastError.type = "AppError"
    /\ procs'[p].outcome.error.lastError.statusCode = 401

\* C9, amended: a 401 answer to a data request carrying token T resets the
\* cache to ABSENT (token null, expiry 0) in the step that raises the error;
\* T is never in the cache again, so no later getAccessToken call returns
\* it, and a getAccessToken call that starts while the cache is still
\* ABSENT performs a fresh login.
C9_ClearedOn401 ==
    /\ [][\A p \in Procs : Answered401(p) =>
            /\ cachedToken' = 0
            /\ tokenExpiry' = 0
            /\ procs[p].token \in revoked']_vars
    /\ [](cachedToken \notin revoked)
    /\ [][\A p \in Procs : (Calls(p) /\ revoked # {}) =>
            /\ cachedToken = 0 => LoginSent(p)
            /\ (procs'[p].entry = "getAccessToken"
                  /\ procs'[p].outcome.kind = "returned") =>
                 procs'[p].outcome.value \notin revoked]_vars

\* after a 401 a fresh login has put a new token into the cache
C9_Witness ==
    /\ revoked # {}
    /\ cachedToken # 0
    /\ cachedToken \notin revoked
    /\ \E p \in Procs : procs[p].logins = 1

\* C10: no data request is sent carrying a token more than one hour after
\* the token was issued by login.
C10_TokenUsedWithinLifetime ==
    \A p \in Procs :
        procs[p].pc = "dataFetch" =>
            procs[p].sentAt <= procs[p].tokenIssuedAt + TokenLifetime

(***************************************************************************)
(* Claims about the failures of the authenticated request and of the login *)
(***************************************************************************)
\* the call of p has ended with an error
Failed(p) == procs[p].pc = "idle" /\ procs[p].outcome.kind = "threw"

\* the call of p has ended with a value
Succeeded(p) == procs[p].pc = "idle" /\ procs[p].outcome.kind = "returned"

\* C11: an authenticated request whose first response is 401 or 429 has
\* failed with that response: it has sent exactly one data request and
\* waits for no backoff delay.
C11_NoRetryOn401Or429 ==
    \A p \in Procs : \A status \in {401, 429} :
        procs[p].answers.first = <<status>> =>
            /\ Failed(p)
            /\ procs[p].requests = 1
            /\ procs[p].wakeAt = 0

\* an authenticated request has failed on a 429 answer
C11_Witness ==
    \E p \in Procs :
        /\ procs[p].entry = "makeAuthenticatedRequest"
        /\ procs[p].answers.first = <<429>>
        /\ Failed(p)

\* C12: when the data endpoint answers 401, the error that getPackages and
\* getPackageById surface is the authentication-failed error (code
\* API_AUTHENTICATION_FAILED, status 401).
C12_Surfaces401AsAuthenticationFailed ==
    \A p \in Procs :
        (procs[p].entry \in PackageEntries /\ procs[p].answers.first = <<401>>) =>
            /\ Failed(p)
            /\ procs[p].outcome.error.type = "AppError"
            /\ procs[p].outcome.error.code = "API_AUTHENTICATION_FAILED"
            /\ procs[p].outcome.error.statusCode = 401

\* C13: every data request of an authenticated request being answered the
\* same non-2xx status other than 401 and 429, the request sends exactly 3
\* data requests when the status is in 500..599 and exactly 1 otherwise,
\* and then fails.
C13_RequestsPerStatus ==
    \A p \in Procs : \A status \in DataStatuses \ {0, 401, 429} :
        (~ok(status) /\ Persistently(procs[p].answers, status)) =>
            IF 500 <= status /\ status <= 599
            THEN /\ procs[p].requests <= 3
                 /\ procs[p].pc = "idle" => (Failed(p) /\ procs[p].requests = 3)
            ELSE /\ Failed(p)
                 /\ procs[p].requests = 1

\* an authenticated request has failed after three 503 answers
C13_Witness ==
    \E p \in Procs :
        /\ procs[p].entry = "makeAuthenticatedRequest"
        /\ Persistently(procs[p].answers, 503)
        /\ Failed(p)
        /\ procs[p].requests = 3

\* C14: a login response 401 or 403 ends the call at once: it raises, no
\* further login request is sent, no backoff delay is waited and the cache
\* is left as it was (one login request when it is the first response); a
\* login answered 5xx every time is retried up to 3 login requests in all.
C14_LoginFailures ==
    /\ [][\A p \in Procs : \A status \in {401, 403} :
            LoginResponse(p, status) =>
                /\ procs'[p].pc = "idle"
                /\ procs'[p].outcome.kind = "threw"
                /\ procs'[p].logins = procs[p].logins
                /\ procs'[p].wakeAt = 0
                /\ cachedToken' = cachedToken
                /\ tokenExpiry' = tokenExpiry]_vars
    /\ [](\A p \in Procs : \A status \in {401, 403} :
            procs[p].loginAnswers.first = <<status>> =>
                (Failed(p) /\ procs[p].logins = 1))
    /\ [](\A p \in Procs : \A status \in LoginStatuses :
            (500 <= status /\ status <= 599
               /\ Persistently(procs[p].loginAnswers, status)) =>
                /\ procs[p].logins <= 3
                /\ procs[p].pc = "idle" => (Failed(p) /\ procs[p].logins = 3))
    /\ [](\A p \in Procs : procs[p].logins <= 3)

\* a login was answered 403 after a retried 500 answer
C14_Witness ==
    \E p \in Procs :
        /\ procs[p].loginAnswers.first = <<500>>
        /\ ~procs[p].loginAnswers.same
        /\ Failed(p)
        /\ procs[p].logins = 2
        /\ procs[p].outcome.error.type = "AppError"
        /\ procs[p].outcome.error.code = "SYSTEM_RESOURCE_ERROR"
        /\ includes(procs[p].outcome.error.message, <<"4", "0", "3">>)

\* C15: a call made while the cache is not VALID and the email or the
\* password is missing raises the SYSTEM_CONFIGURATION_ERROR error at once:
\* no login request, no retry, the cache unchanged, and the caller of
\* getAccessToken or of the authenticated request gets that very error.
C15_MissingCredentials ==
    [][\A p \in Procs :
         (Calls(p) /\ ~Valid /\ (~env.email \/ ~env.password)) =>
            /\ procs'[p].pc = "idle"
            /\ procs'[p].outcome = Threw(ConfigurationError)
            /\ procs'[p].outcome.error.code = "SYSTEM_CONFIGURATION_ERROR"
            /\ procs'[p].logins = 0
            /\ procs'[p].requests = 0
            /\ procs'[p].retry = NotCalled
            /\ cachedToken' = cachedToken
            /\ tokenExpiry' = tokenExpiry]_vars

\* an authenticated request has failed on the missing password
C15_Witness ==
    \E p \in Procs :
        /\ env.email /\ ~env.password
        /\ procs[p].entry = "makeAuthenticatedRequest"
        /\ procs[p].outcome = Threw(ConfigurationError)

\* C16: a login whose response is ok but carries no accessToken raises an
\* authentication-failed error and leaves the cache not VALID; the next call
\* sends a login request again.
C16_NoTokenReceived ==
    /\ [][\A p \in Procs : LoginJson(p, "noToken") =>
            /\ procs'[p].pc = "idle"
            /\ procs'[p].outcome.kind = "threw"
            /\ procs'[p].outcome.error.type = "AppError"
            /\ procs'[p].outcome.error.code = "API_AUTHENTICATION_FAILED"
            /\ ~TokenValid(cachedToken', tokenExpiry', now')]_vars
    /\ [][\A p \in Procs :
            (Calls(p) /\ cachedToken = 0 /\ now < tokenExpiry) => LoginSent(p)]_vars

\* a call logs in again after a login response without a token
C16_Witness ==
    \E p \in Procs :
        /\ procs[p].pc = "loginFetch"
        /\ cachedToken = 0
        /\ now < tokenExpiry

(***************************************************************************)
(* Claims about getPackages and getPackageById                             *)
(***************************************************************************)
\* the concatenation of the pages of the given sizes, from page i on
RECURSIVE Concatenation(_, _)
Concatenation(sizes, i) ==
    IF i > Len(sizes) THEN <<>>
    ELSE (IF sizes[i] = 0 THEN <<>>
          ELSE <<[offset |-> (i - 1) * 270, size |-> sizes[i]]>>)
         \o Concatenation(sizes, i + 1)

\* the number of items of a list of pages
RECURSIVE Total(_)
Total(blocks) ==
    IF blocks = <<>> THEN 0 ELSE Head(blocks).size + Total(Tail(blocks))

\* C17: getPackages stops at the first page of fewer than 270 items (0
\* included): it has sent as many page requests as the index of that page
\* and returns the items of all the pages fetched, in order; the pages
\* 270, 270, 40 give 580 items after 3 requests, a first page of 0 items
\* gives the empty list after 1 request.
C17_StopsAtFirstShortPage ==
    \A p \in Procs :
        procs[p].entry = "getPackages" =>
            LET sizes == procs[p].pageSizes
                k == Len(sizes)
            IN  /\ \A i \in 1..(k - 1) : sizes[i] >= 270
                /\ (k >= 1 /\ sizes[k] < 270) => Succeeded(p)
                /\ Succeeded(p) =>
                      /\ k >= 1
                      /\ sizes[k] < 270
                      /\ procs[p].authenticatedRequests = k
                      /\ procs[p].outcome.value = Concatenation(sizes, 1)
                      /\ sizes = <<270, 270, 40>> =>
                            Total(procs[p].outcome.value) = 580
                      /\ sizes = <<0>> => procs[p].outcome.value = <<>>

\* getPackages has returned 580 items after the pages 270, 270, 40
C17_Witness ==
    \E p \in Procs :
        /\ procs[p].entry = "getPackages"
        /\ Succeeded(p)
        /\ procs[p].pageSizes = <<270, 270, 40>>
        /\ procs[p].authenticatedRequests = 3
        /\ Total(procs[p].outcome.value) = 580

C19_OnlyAppErrorsLeave ==
    \A p \in Procs :
        (procs[p].entry \in PublicEntries /\ procs[p].outcome.kind = "threw") =>
            /\ IsAppError(procs[p].outcome.error)
            /\ procs[p].outcome.error.type \notin {"Error", "RetryError", "TypeError"}

\* getPackages has failed on a network failure of every attempt
C19_Witness ==
    \E p \in Procs :
        /\ procs[p].entry = "getPackages"
        /\ Persistently(procs[p].answers, 0)
        /\ Failed(p)
        /\ procs[p].outcome.error.code = "API_REQUEST_FAILED"

\* withRetry throws in this step and the call of p ends with an error
RetryErrorRaised(p) ==
    /\ procs[p].pc \in {"loginFetch", "dataFetch"}
    /\ procs'[p].pc = "idle"
    /\ procs'[p].outcome.kind = "threw"

\* the RetryError that the withRetry call of p can throw in this step
RetryErrorsOf(p) ==
    {f.error : f \in
        {withRetryRejected(procs[p].retry, LoginRetryOptions, LoginFailure(status)) :
            status \in LoginStatuses \ {200}}
        \cup
        {withRetryRejected(procs[p].retry, ApiRetryOptions, DataFailure(status)) :
            status \in DataStatuses \ {200}}}

\* C20, as stated: a RetryError raised by the retry engine inside
\* getAccessToken, getPackages or getPackageById reaches the caller as it
\* is, without passing through handleError.
C20_RetryErrorPropagatesAsIs ==
    [][\A p \in Procs :
         (procs[p].entry \in PublicEntries /\ RetryErrorRaised(p)) =>
            procs'[p].outcome.error.type = "RetryError"]_vars

\* C20, amended: a RetryError raised by the retry engine inside
\* getAccessToken, getPackages or getPackageById never reaches the caller:
\* the catch block passes it through handleError and the caller gets the
\* AppError that handleError makes of the message of the RetryError.
C20_RetryErrorClassified ==
    [][\A p \in Procs :
         (procs[p].entry \in PublicEntries /\ RetryErrorRaised(p)) =>
            /\ procs'[p].outcome.error.type = "AppError"
            /\ \E e \in RetryErrorsOf(p) :
                  /\ e.type = "RetryError"
                  /\ procs'[p].outcome.error = handleError(e)]_vars

\* getPackageById has failed on a 404 answer, classified as a resource error
C20_Witness ==
    \E p \in Procs :
        /\ procs[p].entry = "getPackageById"
        /\ Persistently(procs[p].answers, 404)
        /\ Failed(p)
        /\ procs[p].outcome.error.code = "SYSTEM_RESOURCE_ERROR"
        /\ includes(procs[p].outcome.error.message, <<"Operation failed after ">>)

(***************************************************************************)
(* SpecErrors: one caught value is classified by handleError, turned into  *)
(* the text for the end user, and answered by the catch blocks of the      *)
(* route handlers                                                          *)
(***************************************************************************)
\* a message is made of at most MaxWords of the words below
MaxWords == 2

\* the substrings handleError and the retry predicates look for, and a text
\* that holds none of them
MessageWords ==
    {<<"fetch">>, <<"timeout">>, <<"4", "0", "1">>, <<"unauthorized">>,
     <<"4", "2", "9">>, <<"rate limit">>, <<"ECONNRESET">>, <<"Invalid input">>}

RECURSIVE MessagesUpTo(_)
MessagesUpTo(n) ==
    IF n = 0 THEN {<<>>}
    ELSE LET shorter == MessagesUpTo(n - 1)
         IN  shorter \cup {m \o w : m \in shorter, w \in MessageWords}

\* the values a catch block can receive
CaughtValues ==
    {Error(m, 0) : m \in MessagesUpTo(MaxWords)}
    \cup {RetryError(<<"Operation failed after ", "3", " attempts: ">> \o m, 3,
                     Error(m, 0)) : m \in MessageWords}
    \cup {TypeError, NonError(0), Nullish(0)}
    \cup {AppError(code, m, status, operational) :
             code \in ErrorCodes \cup {"UNKNOWN_CODE"},
             m \in {<<"fetch", " failed">>, <<"Invalid input">>},
             status \in {0, 401, 500}, operational \in BOOLEAN}
    \cup {APIError(code, m, 503) :
             code \in {"API_TIMEOUT", "API_REQUEST_FAILED"},
             m \in {<<"fetch", " failed">>, <<"4", "0", "1">>}}
    \cup {ValidationError(<<"timeout", " must be a number">>)}

InitErrors ==
    /\ now = 0
    /\ options = [supplied |-> {}, maxAttempts |-> 1, baseDelay |-> 1000,
                  maxDelay |-> 8000, backoffMultiplier |-> 2,
                  retryCondition |-> "always"]
    /\ call = NotCalled
    /\ invocations = 0
    /\ inFlight = 0
    /\ delays = <<>>
    /\ rejections = <<>>
    /\ readyAt = 0
    /\ cachedToken = 0
    /\ tokenExpiry = 0
    /\ env = [email |-> TRUE, password |-> TRUE]
    /\ procs = <<>>
    /\ issued = 0
    /\ issuedAt = 0
    /\ revoked = {}
    /\ calls = 0
    /\ handling \in {[NotHandling EXCEPT !.thrown = v, !.nodeEnv = e] :
                        v \in CaughtValues, e \in {"production", "development"}}
    /\ chat = NotChatting
    /\ guided = NoConversation

\* handleError(error)
HandleError ==
    /\ handling.classified = NoError
    /\ handling' = [handling EXCEPT !.classified = handleError(handling.thrown)]
    /\ UNCHANGED <<now, retryVars, clientVars, chatVars>>

\* handleError applied to the error handleError returned
HandleErrorAgain ==
    /\ handling.classified # NoError
    /\ handling.again = NoError
    /\ handling' = [handling EXCEPT !.again = handleError(handling.classified)]
    /\ UNCHANGED <<now, retryVars, clientVars, chatVars>>

\* createUserFriendlyMessage(appError)
CreateUserFriendlyMessage ==
    /\ handling.classified # NoError
    /\ handling.userMessage = <<>>
    /\ handling' = [handling EXCEPT !.userMessage =
                        <<createUserFriendlyMessage(handling.classified)>>]
    /\ UNCHANGED <<now, retryVars, clientVars, chatVars>>

\* appError.statusCode || 500
StatusOr500(status) == IF status = 0 THEN 500 ELSE status

\* the catch block of the chat request handler (pages/api/ai-agent.ts)
ChatHandlerCatch(error, nodeEnv) ==
    LET appError == handleError(error)
    IN  [route |-> "ai-agent",
         status |-> StatusOr500(appError.statusCode),
         response |-> createUserFriendlyMessage(appError),
         error |-> IF nodeEnv = "development" THEN appError.message
                   ELSE <<"Internal server error">>]

\* the catch blocks of the packages route (pages/api/packages.ts)
PackagesRouteCatch(error) ==
    LET appError == handleError(error)
    IN  [route |-> "packages",
         status |-> StatusOr500(appError.statusCode),
         error |-> appError.message]

\* processWithai rejected with the value: the chat request handler answers
ChatHandlerFails ==
    /\ handling.response = <<>>
    /\ handling' = [handling EXCEPT !.response =
                        <<ChatHandlerCatch(handling.thrown, handling.nodeEnv)>>]
    /\ UNCHANGED <<now, retryVars, clientVars, chatVars>>

\* getPackages rejected with the value: the packages route answers
PackagesRouteFails ==
    /\ handling.response = <<>>
    /\ handling' = [handling EXCEPT !.response =
                        <<PackagesRouteCatch(handling.thrown)>>]
    /\ UNCHANGED <<now, retryVars, clientVars, chatVars>>

NextErrors ==
    \/ HandleError
    \/ HandleErrorAgain
    \/ CreateUserFriendlyMessage
    \/ ChatHandlerFails
    \/ PackagesRouteFails

SpecErrors == InitErrors /\ [][NextErrors]_vars

(***************************************************************************)
(* The retry-based chat processor: processWithai, analyzeUserIntent,       *)
(* handlePackageRequest and the functions that word the reply.  The reply  *)
(* texts are messages; the empty string is the empty message.              *)
(***************************************************************************)
\* faulty variant: a fourth attempt is allowed
AiRetryOptions_FourAttempts ==
    Destructure([supplied |-> {"maxAttempts", "baseDelay", "maxDelay",
                               "backoffMultiplier"},
                 maxAttempts |-> 4, baseDelay |-> 1000, maxDelay |-> 5000,
                 backoffMultiplier |-> 2, retryCondition |-> "always"])

\* AI_CONFIG.retryOptions
AiRetryOptions ==
    Destructure([supplied |-> {"maxAttempts", "baseDelay", "maxDelay",
                               "backoffMultiplier"},
                 maxAttempts |-> 3, baseDelay |-> 1000, maxDelay |-> 5000,
                 backoffMultiplier |-> 2, retryCondition |-> "always"])

\* ERROR_MESSAGES.GENERIC_ERROR
GenericErrorMessage == <<"Temporary Service Issue: We're experiencing a brief technical hiccup.">>

\* ERROR_MESSAGES.API_CONNECTION_FAILED
ApiConnectionFailedMessage == <<"Connection Issue: I'm having trouble connecting to our travel database right now.">>

\* a non-empty text written by the language model
ModelOutput == <<"model output">>

\* the text of generateNoPackagesResponse
NoPackagesFound == <<"No packages found">>

\* the template both formatPackagesResponse branches fall back to
FormattedFallback == <<"Found ", "packages for your trip">>

\* the fallback questions of generateFollowUpQuestion
FollowUpFallback(intent) ==
    IF ~intent.destination THEN <<"Where would you like to go?">>
    ELSE IF ~intent.duration
    THEN <<"How many days are you planning for this trip?">>
    ELSE <<"Could you tell me more about what you're looking for?">>

\* the intent analyzeUserIntent returns when it has no usable answer
UnknownIntent == [intent |-> "unknown", destination |-> FALSE, duration |-> FALSE]

\* what a chat completion can carry as choices[0].message.content: nothing
\* (null or undefined), the empty string, or a text; the text answered to
\* the intent prompt either is JSON that names an intent or does not parse
Completions(stage) ==
    {[kind |-> "absent"], [kind |-> "empty"]} \cup
    (IF stage = "intent"
     THEN {[kind |-> "unparsable"]} \cup
          {[kind |-> "json", intent |-> i, destination |-> d, duration |-> n] :
              i \in {"get_packages", "ask_general", "unknown"},
              d \in BOOLEAN, n \in BOOLEAN}
     ELSE {[kind |-> "text"]})

\* the result of analyzeUserIntent for the content of the completion
IntentOf(completion) ==
    IF completion.kind = "json"
    THEN [intent |-> completion.intent, destination |-> completion.destination,
          duration |-> completion.duration]
    ELSE UnknownIntent

\* error instanceof RetryError
IsRetryError(e) == e.type = "RetryError"

\* the catch block of handlePackageRequest
handlePackageRequestCatch(error) ==
    LET appError == handleError(error)
    IN  IF IsRetryError(appError) THEN ApiConnectionFailedMessage
        ELSE createUserFriendlyMessage(appError)

\* the catch block of handleGeneralQuery
handleGeneralQueryCatch(error) == createUserFriendlyMessage(handleError(error))

\* the catch block of processWithai
processWithaiCatch(error) == createUserFriendlyMessage(handleError(error))

\* what processWithai resolves to, given how the function it awaits ended
processWithaiResult(outcome) ==
    IF outcome.kind = "threw" THEN Returned(processWithaiCatch(outcome.error))
    ELSE outcome

\* the chat request handler answers: 200 with the reply, or its catch block
ChatHandlerAnswer(outcome, nodeEnv) ==
    IF outcome.kind = "returned"
    THEN [route |-> "ai-agent", status |-> 200, response |-> outcome.value]
    ELSE ChatHandlerCatch(outcome.error, nodeEnv)

\* the function processWithai awaits has ended: processWithai resolves and
\* the request handler answers
ChatDone(c, outcome) ==
    LET result == processWithaiResult(outcome)
    IN  [c EXCEPT !.pc = "done", !.stage = "none", !.retry = NotCalled,
                  !.wakeAt = 0, !.routed = FALSE, !.outcome = result,
                  !.response = <<ChatHandlerAnswer(result, "production")>>]

\* a call of the language model starts inside withRetry
CallModel(c, stage) ==
    [c EXCEPT !.pc = "llm", !.stage = stage, !.retry = withRetryBegin]

\* handlePackageRequest: fetch the packages when destination and duration
\* are known, else ask for what is missing
handlePackageRequest(c, intent) ==
    IF intent.destination /\ intent.duration
    THEN [c EXCEPT !.pc = "packagesFetch", !.stage = "none", !.intent = intent,
                   !.retry = withRetryBegin, !.routed = FALSE,
                   !.fetches = @ + 1]
    ELSE CallModel([c EXCEPT !.intent = intent], "followUp")

\* the switch of processWithai on the intent
AfterIntent(c, intent) ==
    IF intent.intent = "get_packages" THEN handlePackageRequest(c, intent)
    ELSE CallModel([c EXCEPT !.intent = intent], "general")

\* withRetry returned the completion of the call of the stage
AfterCompletion(c, completion) ==
    CASE c.stage = "intent" -> AfterIntent(c, IntentOf(completion))
      [] c.stage = "followUp" ->
           ChatDone(c, Returned(IF completion.kind = "text" THEN ModelOutput
                                ELSE FollowUpFallback(UnknownIntent)))
      [] c.stage = "general" ->
           ChatDone(c, Returned(IF completion.kind = "text" THEN ModelOutput
                                ELSE GenericErrorMessage))
      [] c.stage = "format" ->
           ChatDone(c, Returned(CASE completion.kind = "absent" -> FormattedFallback
                                  [] completion.kind = "empty" -> <<>>
                                  [] OTHER -> ModelOutput))

\* withRetry threw while the call of the stage was made: the catch block of
\* the function that made the call
AfterModelError(c, error) ==
    CASE c.stage = "intent" -> AfterIntent(c, UnknownIntent)
      [] c.stage = "followUp" -> ChatDone(c, Returned(FollowUpFallback(c.intent)))
      [] c.stage = "general" -> ChatDone(c, Returned(handleGeneralQueryCatch(error)))
      [] c.stage = "format" -> ChatDone(c, Returned(FormattedFallback))

\* what the call of the language model of the n-th attempt can reject with
ModelErrors(n) ==
    {Error(<<"Connection error: ", "fetch", " failed">>, n),
     Error(<<"4", "2", "9", " Too Many Requests">>, n),
     NonError(n)}

\* the lists the packages route can answer after its filters
RouteLists(found) == IF found = <<>> THEN {"empty"} ELSE {"empty", "packages"}

\* what the operation passed to withRetry by handlePackageRequest throws
RouteFailure(status) ==
    IF status = 0 THEN FetchFailed
    ELSE Error(<<"API responded with ", "status", ": ">> \o NumStr(status), 0)

\* the packages route answers the call of getPackages that has ended
PackagesRouteAnswer(outcome) ==
    IF outcome.kind = "returned"
    THEN [route |-> "packages", status |-> 200]
    ELSE PackagesRouteCatch(outcome.error)

(***************************************************************************)
(* SpecChat: one chat request; its package fetch goes through the packages *)
(* route, getPackages and the downstream endpoints                         *)
(***************************************************************************)
InitChat ==
    /\ now = 0
    /\ options = [supplied |-> {}, maxAttempts |-> 1, baseDelay |-> 1000,
                  maxDelay |-> 8000, backoffMultiplier |-> 2,
                  retryCondition |-> "always"]
    /\ call = NotCalled
    /\ invocations = 0
    /\ inFlight = 0
    /\ delays = <<>>
    /\ rejections = <<>>
    /\ readyAt = 0
    /\ cachedToken = 0
    /\ tokenExpiry = 0
    /\ env = [email |-> TRUE, password |-> TRUE]
    /\ procs = [p \in {"A"} |-> IdleProc]
    /\ issued = 0
    /\ issuedAt = 0
    /\ revoked = {}
    /\ calls = 0
    /\ handling = NotHandling
    /\ chat = NotChatting
    /\ guided = NoConversation

\* the handler receives a POST with a messages array: processWithai runs up
\* to the intent analysis, or answers at once when no message is the user's
ChatRequest(hasUserMessage) ==
    /\ chat.pc = "idle"
    /\ chat' = IF hasUserMessage THEN CallModel(chat, "intent")
               ELSE ChatDone(chat, Returned(GenericErrorMessage))
    /\ UNCHANGED <<now, guided>>
    /\ UNCHANGED <<retryVars, clientVars, errorVars>>

\* the chat completion arrives
ModelResponse(completion) ==
    /\ chat.pc = "llm"
    /\ completion \in Completions(chat.stage)
    /\ chat' = AfterCompletion(
                   [chat EXCEPT !.retry = withRetryResolved(chat.retry, 0)],
                   completion)
    /\ UNCHANGED <<now, guided>>
    /\ UNCHANGED <<retryVars, clientVars, errorVars>>

\* the call of the language model rejects: withRetry waits or throws
ModelRejects(error) ==
    /\ chat.pc = "llm"
    /\ error \in ModelErrors(chat.retry.attempt)
    /\ LET f == withRetryRejected(chat.retry, AiRetryOptions, error)
       IN  chat' = IF f.pc = "delay"
                   THEN [chat EXCEPT !.pc = "llmDelay", !.retry = f,
                                     !.wakeAt = now + f.delay]
                   ELSE AfterModelError(chat, f.error)
    /\ UNCHANGED <<now, guided>>
    /\ UNCHANGED <<retryVars, clientVars, errorVars>>

\* the backoff timer of a call of the language model fires
ModelTimer ==
    /\ chat.pc = "llmDelay"
    /\ now' = IF now < chat.wakeAt THEN chat.wakeAt ELSE now
    /\ chat' = [chat EXCEPT !.pc = "llm", !.wakeAt = 0,
                            !.retry = withRetryTimeout(chat.retry)]
    /\ UNCHANGED guided
    /\ UNCHANGED <<retryVars, clientVars, errorVars>>

\* the operation of the package fetch rejected with the error
AfterRouteFailure(c, error) ==
    LET f == withRetryRejected(c.retry, AiRetryOptions, error)
    IN  IF f.pc = "delay"
        THEN [c EXCEPT !.pc = "packagesDelay", !.retry = f, !.routed = FALSE,
                       !.wakeAt = now + f.delay]
        ELSE ChatDone([c EXCEPT !.fetchError = f.error],
                      Returned(handlePackageRequestCatch(f.error)))

\* fetch(apiUrl) rejects: the request does not reach the packages route
PackagesFetchRejects ==
    /\ chat.pc = "packagesFetch"
    /\ ~chat.routed
    /\ chat' = AfterRouteFailure(chat, RouteFailure(0))
    /\ UNCHANGED <<now, guided>>
    /\ UNCHANGED <<retryVars, clientVars, errorVars>>

\* the packages route receives the request and calls getPackages
PackagesRoute ==
    /\ chat.pc = "packagesFetch"
    /\ ~chat.routed
    /\ procs["A"].pc = "idle"
    /\ chat' = [chat EXCEPT !.routed = TRUE]
    /\ calls' = calls + 1
    /\ procs' = [procs EXCEPT !["A"] =
           callGetAccessToken([IdleProc EXCEPT !.entry = "getPackages"])]
    /\ UNCHANGED <<now, cachedToken, tokenExpiry, env, issued, issuedAt, revoked>>
    /\ UNCHANGED <<retryVars, errorVars, guided>>

\* getPackages has ended: the packages route answers, and the operation of
\* the package fetch resolves with the list or rejects on the status.
\* routeAnswers counts the answers of the route; only5xx tells whether the
\* data endpoint has answered 5xx to every data request of the chat request
\* so far, and downstream counts these data requests as long as it has.
PackagesRouteAnswers(list) ==
    /\ chat.pc = "packagesFetch"
    /\ chat.routed
    /\ procs["A"].pc = "idle"
    /\ procs' = [procs EXCEPT !["A"] = IdleProc]
    /\ UNCHANGED <<cachedToken, tokenExpiry, env, issued, issuedAt, revoked, calls>>
    /\ LET pr == procs["A"]
           answer == PackagesRouteAnswer(pr.outcome)
           only == /\ chat.only5xx
                   /\ pr.pageSizes = <<>>
                   /\ pr.answers.same
                   /\ pr.answers.first \in {<<>>, <<503>>}
           c == [chat EXCEPT !.routeAnswers = @ + 1,
                             !.only5xx = only,
                             !.downstream = IF only THEN @ + pr.requests ELSE 0]
       IN  IF ok(answer.status)
           THEN /\ list \in RouteLists(pr.outcome.value)
                /\ chat' =
                     LET d == [c EXCEPT !.retry = withRetryResolved(c.retry, 0),
                                        !.routed = FALSE]
                     IN  IF list = "empty"
                         THEN ChatDone(d, Returned(NoPackagesFound))
                         ELSE CallModel(d, "format")
           ELSE /\ list = "empty"
                /\ chat' = AfterRouteFailure(c, RouteFailure(answer.status))
    /\ UNCHANGED <<now, guided>>
    /\ UNCHANGED <<retryVars, errorVars>>

\* the backoff timer of the package fetch fires: fetch(apiUrl) again
PackagesTimer ==
    /\ chat.pc = "packagesDelay"
    /\ now' = IF now < chat.wakeAt THEN chat.wakeAt ELSE now
    /\ chat' = [chat EXCEPT !.pc = "packagesFetch", !.wakeAt = 0,
                            !.retry = withRetryTimeout(chat.retry),
                            !.fetches = @ + 1]
    /\ UNCHANGED guided
    /\ UNCHANGED <<retryVars, clientVars, errorVars>>

NextChat ==
    \/ \E hasUserMessage \in BOOLEAN : ChatRequest(hasUserMessage)
    \/ \E completion \in Completions(chat.stage) : ModelResponse(completion)
    \/ \E error \in ModelErrors(chat.retry.attempt) : ModelRejects(error)
    \/ ModelTimer
    \/ PackagesFetchRejects
    \/ PackagesRoute
    \/ \E list \in {"empty", "packages"} : PackagesRouteAnswers(list)
    \/ PackagesTimer
    \/ \E p \in Procs, status \in {200, 401, 500} : LoginResponse(p, status)
    \/ \E p \in Procs : LoginTimer(p)
    \/ \E p \in Procs, body \in LoginBodies : LoginJson(p, body)
    \/ \E p \in Procs, status \in {200, 401, 429, 503} : DataResponse(p, status)
    \/ \E p \in Procs : DataTimer(p)
    \/ \E p \in Procs : \E body \in DataBodies(procs[p]) : DataJson(p, body)

SpecChat == InitChat /\ [][NextChat]_vars

(***************************************************************************)
(* The guided chat processor (lib/ai/ai.ts): the step of the conversation  *)
(* is read off the texts of the assistant's earlier messages.              *)
(***************************************************************************)
\* the phrases extractConversationState looks for
WhereQuestion == <<"where you'd like to go">>
DaysQuestion == <<"How many days">>
TypeQuestion == <<"what type of package experience">>

\* what the language model writes: a text with none of the phrases, or one
\* that holds a phrase
ModelTexts ==
    {<<"Here are some travel tips">>,
     <<"Tell me ">> \o WhereQuestion,
     <<"Nice! ">> \o DaysQuestion \o <<" do you have?">>,
     <<"It depends on ">> \o TypeQuestion \o <<" you like">>}

\* isPackageRequest(content): one of the keywords occurs in the text
isPackageRequest(content) ==
    \E k \in {"package", "trips", "tours", "holidays"} : includes(content, <<k>>)

\* the loop of extractConversationState from index i down: the step named
\* by the last assistant message that holds one of the phrases, and its index
RECURSIVE StepFrom(_, _)
StepFrom(messages, i) ==
    IF i = 0 THEN [step |-> "initial", at |-> 0]
    ELSE IF messages[i].role = "assistant"
            /\ includes(messages[i].content, TypeQuestion)
    THEN [step |-> "packageType", at |-> i]
    ELSE IF messages[i].role = "assistant"
            /\ includes(messages[i].content, DaysQuestion)
    THEN [step |-> "duration", at |-> i]
    ELSE IF messages[i].role = "assistant"
            /\ includes(messages[i].content, WhereQuestion)
    THEN [step |-> "destination", at |-> i]
    ELSE StepFrom(messages, i - 1)

\* extractConversationState(messages); the destination and the duration
\* are the user message that follows the first assistant message holding
\* the phrase and followed by a user message, if any
extractConversationState(messages) ==
    LET s == StepFrom(messages, Len(messages))
        all == SubSeq(messages, 1, s.at - 1)
        AnswerAfter(phrase) ==
            LET found == {j \in 1..(Len(all) - 1) :
                             /\ all[j].role = "assistant"
                             /\ includes(all[j].content, phrase)
                             /\ all[j + 1].role = "user"}
            IN  IF found = {} THEN <<>>
                ELSE all[(CHOOSE j \in found : \A k \in found : j <= k) + 1].content
    IN  [step |-> s.step,
         destination |-> IF s.step \in {"packageType", "duration"}
                         THEN AnswerAfter(WhereQuestion) ELSE <<>>,
         duration |-> IF s.step = "packageType"
                      THEN AnswerAfter(DaysQuestion) ELSE <<>>]

\* the reply to a conversation outside the guided flow that gets no text
\* from the language model
WelcomeText == <<"TripXplo AI - Your Travel Companion">>

\* processWithai resolves to the text: the reply joins the conversation
Reply(g, text) ==
    [g EXCEPT !.pc = "idle",
              !.messages = Append(@, [role |-> "assistant", content |-> text])]

\* processWithai up to its first await, on the messages of the request
processGuided(g) ==
    LET users == {i \in 1..Len(g.messages) : g.messages[i].role = "user"}
        state == extractConversationState(g.messages)
        c == [g EXCEPT !.step = state.step, !.destination = state.destination,
                       !.duration = state.duration, !.toolCalls = 0,
                       !.toolResult = <<>>, !.asked = Len(g.messages)]
    IN  IF users = {} THEN Reply(c, WelcomeText)
        ELSE LET last == g.messages[CHOOSE i \in users : \A k \in users : k <= i]
             IN  IF state.step = "initial" /\ isPackageRequest(last.content)
                 THEN Reply(c, <<"To get started, could you tell me ">>
                                   \o WhereQuestion \o <<"?">>)
                 ELSE IF state.step \in {"destination", "duration"}
                 THEN [c EXCEPT !.pc = "options"]
                 ELSE IF state.step = "packageType"
                 THEN [c EXCEPT !.pc = "tool", !.toolCalls = 1]
                 ELSE [c EXCEPT !.pc = "general"]

(***************************************************************************)
(* SpecGuided: one conversation with the guided processor                  *)
(***************************************************************************)
\* the user writes a message and the handler calls processWithai with the
\* conversation so far
GuidedRequest(text) ==
    /\ guided.pc = "idle"
    /\ guided.turns < MaxTurns
    /\ guided' = processGuided(
           [guided EXCEPT !.turns = @ + 1,
                          !.messages = Append(@, [role |-> "user",
                                                  content |-> text])])
    /\ UNCHANGED <<now, chat>>
    /\ UNCHANGED <<retryVars, clientVars, errorVars>>

\* the package-options request settles, with durations for the destination
\* or without. At step destination a number the user typed stands for a
\* destination of the list; at step duration the question for the package
\* type is asked whatever the request gave.
OptionsAnswer(available) ==
    /\ guided.pc = "options"
    /\ LET last == guided.messages[guided.asked].content
           destination == CASE last = <<"1">> -> <<"Goa">>
                            [] last = <<"2">> -> <<"Kashmir">>
                            [] last = <<"3">> -> <<"Bali">>
                            [] last = <<"4">> -> <<"Dubai">>
                            [] OTHER -> last
       IN  guided' =
             IF guided.step = "destination"
             THEN IF available
                  THEN Reply(guided,
                         <<"Great choice! ">> \o destination
                           \o <<" sounds amazing! ">> \o DaysQuestion
                           \o <<" are you planning for this trip?">>)
                  ELSE Reply(guided,
                         <<"Sorry, there are no available durations in ">>
                           \o destination)
             ELSE Reply(guided,
                    <<"Perfect timing! ">> \o last
                      \o <<" days will be wonderful! Now, ">> \o TypeQuestion
                      \o <<" are you looking for?">>)
    /\ UNCHANGED <<now, chat>>
    /\ UNCHANGED <<retryVars, clientVars, errorVars>>

\* executeTool('get_packages', ...) settles with packages, with the text
\* 'No packages', with the text 'Sorry, I couldn't fetch' or by rejecting: a
\* second and a third call are made when the result holds no packages
ToolAnswers(result) ==
    /\ guided.pc = "tool"
    /\ LET unavailable == <<"Service Temporarily Unavailable">>
           toolResult ==
               CASE result = "packages" -> <<"Goa Beach Escape">>
                 [] result = "none" -> <<"No packages", " found">>
                 [] OTHER -> <<"Sorry, I couldn't fetch", " the packages">>
       IN  guided' =
             IF result = "throws" THEN Reply(guided, unavailable)
             ELSE IF result \in {"none", "failed"} /\ guided.toolCalls < 3
             THEN [guided EXCEPT !.toolCalls = @ + 1]
             ELSE IF result = "failed" THEN Reply(guided, unavailable)
             ELSE [guided EXCEPT !.pc = "format", !.toolResult = toolResult]
    /\ UNCHANGED <<now, chat>>
    /\ UNCHANGED <<retryVars, clientVars, errorVars>>

\* formatToolResult settles: the text of the model, or the tool result when
\* the call fails or has no content
FormatAnswers(texts) ==
    /\ guided.pc = "format"
    /\ guided' = Reply(guided, IF texts = <<>> THEN guided.toolResult
                               ELSE texts[1])
    /\ UNCHANGED <<now, chat>>
    /\ UNCHANGED <<retryVars, clientVars, errorVars>>

\* the chat completion for a query outside the guided flow settles: the
\* text of the model, or the welcome text when the call fails or is empty
GeneralAnswers(texts) ==
    /\ guided.pc = "general"
    /\ guided' = Reply(guided, IF texts = <<>> THEN WelcomeText ELSE texts[1])
    /\ UNCHANGED <<now, chat>>
    /\ UNCHANGED <<retryVars, clientVars, errorVars>>

NextGuided ==
    \/ \E text \in {<<"show me ", "package", "s">>, <<"Goa">>, <<"3">>} :
           GuidedRequest(text)
    \/ \E available \in BOOLEAN : OptionsAnswer(available)
    \/ \E result \in {"packages", "none", "failed", "throws"} :
           ToolAnswers(result)
    \/ \E texts \in {<<>>} \cup {<<t>> : t \in ModelTexts} : FormatAnswers(texts)
    \/ \E texts \in {<<>>} \cup {<<t>> : t \in ModelTexts} : GeneralAnswers(texts)

\* the conversation starts where the chat starts: nothing said yet
SpecGuided == InitChat /\ [][NextGuided]_vars

(***************************************************************************)
(* Claims about handleError and createUserFriendlyMessage                  *)
(***************************************************************************)
\* the caught value is an Error that is not an AppError, and was classified
ErrorClassified ==
    /\ handling.thrown.type \in {"Error", "RetryError", "TypeError"}
    /\ handling.classified # NoError

\* the classification has the code and the status
ClassifiedAs(code, status) ==
    /\ handling.classified.code = code
    /\ handling.classified.statusCode = status

\* C21: handleError of an Error whose message contains ECONNRESET returns
\* an error with code API_REQUEST_FAILED and status 503.
C21_EconnresetIsRequestFailed ==
    (ErrorClassified /\ includes(handling.thrown.message, <<"ECONNRESET">>)) =>
        ClassifiedAs("API_REQUEST_FAILED", 503)

\* C22, amended: handleError classifies an Error that is not an AppError by
\* the first rule that matches, in the order fetch, timeout, 401 or
\* unauthorized, 429 or rate limit, else SYSTEM_RESOURCE_ERROR/500
\* operational; a message containing 401 classifies to
\* API_AUTHENTICATION_FAILED/401 when it contains neither fetch nor timeout.
C22_FirstMatchingRule ==
    ErrorClassified =>
        LET m == handling.thrown.message
            isFetch == includes(m, <<"fetch">>)
            isTimeout == includes(m, <<"timeout">>)
            isAuth == includes(m, <<"4", "0", "1">>) \/ includes(m, <<"unauthorized">>)
            isRate == includes(m, <<"4", "2", "9">>) \/ includes(m, <<"rate limit">>)
        IN  /\ isFetch => ClassifiedAs("API_REQUEST_FAILED", 503)
            /\ (~isFetch /\ isTimeout) => ClassifiedAs("API_TIMEOUT", 408)
            /\ (~isFetch /\ ~isTimeout /\ isAuth) =>
                  ClassifiedAs("API_AUTHENTICATION_FAILED", 401)
            /\ (~isFetch /\ ~isTimeout /\ ~isAuth /\ isRate) =>
                  ClassifiedAs("API_RATE_LIMIT_EXCEEDED", 429)
            /\ (~isFetch /\ ~isTimeout /\ ~isAuth /\ ~isRate) =>
                  /\ ClassifiedAs("SYSTEM_RESOURCE_ERROR", 500)
                  /\ handling.classified.isOperational
                  /\ handling.classified.message = m

\* C22, as stated: the first matching rule decides, and every message
\* containing 401 classifies to API_AUTHENTICATION_FAILED/401.
C22_Every401IsAuthenticationFailed ==
    /\ C22_FirstMatchingRule
    /\ (ErrorClassified /\ includes(handling.thrown.message, <<"4", "0", "1">>)) =>
          ClassifiedAs("API_AUTHENTICATION_FAILED", 401)

\* a message with 429 and 401 was classified as an authentication failure
C22_Witness ==
    /\ ErrorClassified
    /\ includes(handling.thrown.message, <<"4", "2", "9">>)
    /\ includes(handling.thrown.message, <<"4", "0", "1">>)
    /\ ClassifiedAs("API_AUTHENTICATION_FAILED", 401)

C24_IdentityOnAppError ==
    /\ (handling.thrown.type = "AppError" /\ handling.classified # NoError) =>
          handling.classified = handling.thrown
    /\ handling.again # NoError => handling.again = handling.classified

\* an APIError whose message contains fetch came back unchanged, twice
C24_Witness ==
    /\ handling.thrown.type = "AppError"
    /\ handling.thrown.name = "APIError"
    /\ handling.thrown.code = "API_TIMEOUT"
    /\ includes(handling.thrown.message, <<"fetch">>)
    /\ handling.classified = handling.thrown
    /\ handling.again = handling.thrown

\* C25: createUserFriendlyMessage returns a non-empty text for each of the
\* 14 error codes and for an unknown code; a code without a text of its own
\* (SYSTEM_CONFIGURATION_ERROR among them) gets the generic text.
C25_UserMessageTotal ==
    /\ Cardinality(ErrorCodes) = 14
    /\ handling.userMessage # <<>> =>
          /\ handling.userMessage[1] # <<>>
          /\ \A i \in 1..Len(handling.userMessage[1]) :
                handling.userMessage[1][i] # ""
          /\ handling.classified.code \notin
                {"API_AUTHENTICATION_FAILED", "API_RATE_LIMIT_EXCEEDED",
                 "API_TIMEOUT", "DATA_NOT_FOUND", "USER_INPUT_INVALID",
                 "AI_MODEL_ERROR"} =>
                handling.userMessage[1] =
                    <<"Service Temporarily Unavailable: We're experiencing a brief technical issue. Please try again shortly. Great travel experiences are worth the wait!">>

\* the configuration error got the generic text
C25_Witness ==
    /\ handling.classified # NoError
    /\ handling.classified.code = "SYSTEM_CONFIGURATION_ERROR"
    /\ handling.userMessage # <<>>
    /\ includes(handling.userMessage[1],
                <<"Service Temporarily Unavailable: We're experiencing a brief technical issue. Please try again shortly. Great travel experiences are worth the wait!">>)

\* the texts written in advance for the end user
PrewrittenTexts ==
    {createUserFriendlyMessage([code |-> code]) :
        code \in ErrorCodes \cup {"UNKNOWN_CODE"}}
    \cup {<<"Internal server error">>}

\* C26: on a failure the chat request handler and the packages route show
\* the end user only a text chosen by the code of the error, never the raw
\* message of the error.
C26_OnlyPrewrittenTextShown ==
    handling.response # <<>> =>
        LET r == handling.response[1]
        IN  /\ r.error \in PrewrittenTexts
            /\ r.route = "ai-agent" => r.response \in PrewrittenTexts

(***************************************************************************)
(* Claim about the defaults of withRetry (checked under SpecRetry)         *)
(***************************************************************************)
\* the value withRetry works with for the option: the caller's when
\* supplied, else the given default
Effective(field, default) ==
    IF field \in options.supplied THEN options[field] ELSE default

\* C28: an omitted option of withRetry is replaced by its default
\* (maxAttempts 3, baseDelay 1000, maxDelay 10000, backoffMultiplier 2, the
\* default predicate) independently of the others, and a supplied option
\* is kept; with no options an operation that always
\* fails with a retryable error is invoked 3 times, after delays of 1000
\* and 2000 ms.
C28_OptionDefaults ==
    /\ opts.maxAttempts = Effective("maxAttempts", 3)
    /\ opts.baseDelay = Effective("baseDelay", 1000)
    /\ opts.maxDelay = Effective("maxDelay", 10000)
    /\ opts.backoffMultiplier = Effective("backoffMultiplier", 2)
    /\ opts.retryCondition = Effective("retryCondition", "default")
    /\ invocations <= Effective("maxAttempts", 3)
    /\ \A k \in 1..Len(delays) :
          LET grown == Effective("baseDelay", 1000)
                         * Pow(Effective("backoffMultiplier", 2), k - 1)
          IN  delays[k] = Min(grown, Effective("maxDelay", 10000))
    /\ (call.pc = "threw" /\ AllAccepted) =>
          invocations = Effective("maxAttempts", 3)
    /\ (options.supplied = {} /\ call.pc = "threw" /\ AllAccepted) =>
          /\ invocations = 3
          /\ delays = <<1000, 2000>>

\* five attempts with multiplier 3 and the other options omitted: the
\* default base delay, and the default cap at the fourth delay
C28_Witness ==
    /\ options.supplied = {"maxAttempts", "backoffMultiplier"}
    /\ call.pc = "threw"
    /\ invocations = 5
    /\ delays = <<1000, 3000, 9000, 10000>>

(***************************************************************************)
(* Claim about concurrent logins (checked under SpecConcurrent)            *)
(***************************************************************************)
\* the latest call of request p logged in and returned a token
LoggedIn(p) ==
    /\ Succeeded(p)
    /\ procs[p].entry = "getAccessToken"
    /\ procs[p].logins >= 1

\* C27: when the two requests have both logged in and returned, each has
\* returned a token issued by a login, the two tokens differ, and at the
\* return of the later one the cache is VALID and holds the token that one
\* of the two returned.
C27_ConcurrentLogins ==
    /\ [](\A p \in {"A", "B"} :
            LoggedIn(p) => procs[p].outcome.value \in 1..issued)
    /\ []((LoggedIn("A") /\ LoggedIn("B")) =>
            procs["A"].outcome.value # procs["B"].outcome.value)
    /\ [][\A p \in {"A", "B"} :
            (procs[p].pc = "loginJson" /\ LoggedIn("A")' /\ LoggedIn("B")') =>
                /\ cachedToken' # 0
                /\ now' < tokenExpiry'
                /\ cachedToken' = procs'[p].outcome.value
                /\ cachedToken' \in {procs'["A"].outcome.value,
                                     procs'["B"].outcome.value}]_vars

\* both requests have a login in flight at once
BothLoggingIn ==
    procs["A"].pc = "loginFetch" /\ procs["B"].pc = "loginFetch"

\* both requests logged in within the lifetime of the first token, so
\* their logins were in flight at once; both returned, and the cache holds
\* the token of A, whose login was answered last
C27_Witness ==
    /\ LoggedIn("A")
    /\ LoggedIn("B")
    /\ procs["A"].outcome.value > procs["B"].outcome.value
    /\ cachedToken = procs["A"].outcome.value
    /\ now < TokenLifetime
    /\ now < tokenExpiry
    /\ calls = 2

(***************************************************************************)
(* Claims about the pagination of getPackages                              *)
(***************************************************************************)
\* C29: a getPackages call all of whose requests are answered ends
\* (returns or raises) once a page of fewer than 270 items arrives or a
\* request fails; after a page of 270 items it always requests the next
\* page, however many pages it has read.
C29_TerminatesOnShortPage ==
    /\ (procs["A"].entry = "getPackages" /\ procs["A"].pc # "idle")
          ~> (procs["A"].pc = "idle")
    /\ [][\A p \in {"A"} :
            (procs[p].entry = "getPackages" /\ procs[p].pc = "dataJson"
               /\ Len(procs'[p].pageSizes) = Len(procs[p].pageSizes) + 1
               /\ procs'[p].pageSizes[Len(procs'[p].pageSizes)] >= 270) =>
                /\ procs'[p].outcome.kind # "returned"
                /\ procs'[p].authenticatedRequests =
                      procs[p].authenticatedRequests + 1]_vars

\* getPackages has raised after two full pages
C29_Witness ==
    \E p \in Procs :
        /\ procs[p].entry = "getPackages"
        /\ Failed(p)
        /\ procs[p].pageSizes = <<270, 270>>
        /\ procs[p].authenticatedRequests = 3

\* C30: the k-th page request of a getPackages call has limit 270 and
\* offset (k - 1) * 270, and is made only after page k - 1 arrived with 270
\* items.
C30_PageOffsets ==
    \A p \in Procs :
        procs[p].entry = "getPackages" =>
            /\ Len(procs[p].requested) = procs[p].authenticatedRequests
            /\ Len(procs[p].requested) <= Len(procs[p].pageSizes) + 1
            /\ \A k \in 1..Len(procs[p].requested) :
                  /\ procs[p].requested[k] =
                        [limit |-> 270, offset |-> (k - 1) * 270]
                  /\ k > 1 => procs[p].pageSizes[k - 1] = 270

\* the third page was requested at offset 540
C30_Witness ==
    \E p \in Procs :
        /\ procs[p].entry = "getPackages"
        /\ Len(procs[p].requested) = 3
        /\ procs[p].requested[3].offset = 540

(***************************************************************************)
(* Claims about the bearer token of the data requests (checked under Spec) *)
(***************************************************************************)
\* a data request is sent by p in this step
DataSent(p) == procs[p].pc # "dataFetch" /\ procs'[p].pc = "dataFetch"

\* the call of p ends in this step with an error raised by getAccessToken
TokenFailed(p) ==
    /\ procs[p].pc \in {"idle", "loginFetch", "loginJson"}
    /\ procs'[p] # procs[p]
    /\ procs'[p].pc = "idle"
    /\ procs'[p].outcome.kind = "threw"

\* C31: every data request carries a token that a successful login has
\* returned before; the first data request of an authenticated request
\* carries the token getAccessToken has just yielded (the one in the cache),
\* and an authenticated request whose getAccessToken raises sends no data
\* request.
C31_DataRequestsCarryLoginToken ==
    /\ [](\A p \in Procs :
            procs[p].pc = "dataFetch" =>
                (procs[p].token # 0 /\ procs[p].token \in 1..issued))
    /\ [][\A p \in Procs :
            (DataSent(p) /\ procs'[p].requests = 1) =>
                /\ procs'[p].token = cachedToken'
                /\ procs'[p].token \in 1..issued']_vars
    /\ [][\A p \in Procs :
            (TokenFailed(p) /\ procs'[p].entry # "getAccessToken") =>
                procs'[p].requests = 0]_vars

\* a data request is in flight with the token of the login of its call,
\* after an earlier authenticated request failed to obtain a token
C31_Witness ==
    \E p \in Procs :
        /\ procs[p].pc = "dataFetch"
        /\ procs[p].entry = "makeAuthenticatedRequest"
        /\ procs[p].logins >= 1
        /\ procs[p].token = issued
        /\ issued = 1
        /\ calls >= 2

(***************************************************************************)
(* Claims about the result of getPackages (checked under SpecPackages)     *)
(***************************************************************************)
\* every page getPackages has requested was read, and the last one was short
AllPagesRead(p) ==
    /\ Len(procs[p].pageSizes) = Len(procs[p].requested)
    /\ Len(procs[p].pageSizes) >= 1
    /\ procs[p].pageSizes[Len(procs[p].pageSizes)] < 270

\* C33: a call of getPackages that has ended either has read every page it
\* requested and returns all of their items, or it raises an AppError and
\* returns nothing: a failed page request never yields the items of the
\* pages read before it.
C33_NoPartialResult ==
    \A p \in Procs :
        (procs[p].entry = "getPackages" /\ procs[p].pc = "idle") =>
            IF AllPagesRead(p)
            THEN procs[p].outcome =
                     Returned(Concatenation(procs[p].pageSizes, 1))
            ELSE /\ procs[p].outcome.kind = "threw"
                 /\ procs[p].outcome.error.type = "AppError"

\* getPackages has raised after it had read a full page
C33_Witness ==
    \E p \in Procs :
        /\ procs[p].entry = "getPackages"
        /\ Failed(p)
        /\ procs[p].pageSizes = <<270>>
        /\ procs[p].allPackages # <<>>
        /\ procs[p].requests >= 1

(***************************************************************************)
(* Claims about the frame of the token cache (checked under Spec)          *)
(***************************************************************************)
\* the token cache is written in this step
CacheChanged == cachedToken' # cachedToken \/ tokenExpiry' # tokenExpiry

\* C34: the token cache is written only when the body of an ok login
\* response is read (token and expiry, the expiry one hour ahead) and when
\* a data request is answered 401 (token and expiry cleared).  A login
\* response that is not ok, the last one of an exhausted login included, a
\* missing-credentials error, a data response 429, 5xx or 2xx and the
\* backoff timers leave both as they were.
C34_CacheFrame ==
    /\ [][CacheChanged =>
            \E p \in Procs :
                \/ /\ \E body \in LoginBodies : LoginJson(p, body)
                   /\ procs[p].loginAnswers # NoAnswers
                   /\ cachedToken' \in {0, issued'}
                   /\ tokenExpiry' = now + 3600000
                \/ /\ DataResponse(p, 401)
                   /\ cachedToken' = 0
                   /\ tokenExpiry' = 0]_vars
    /\ [][(\E p \in Procs :
               \/ \E status \in {0, 401, 403, 500} : LoginResponse(p, status)
               \/ Calls(p) /\ procs'[p].outcome = Threw(ConfigurationError)
               \/ \E status \in {200, 429, 503} : DataResponse(p, status)
               \/ LoginTimer(p)
               \/ DataTimer(p))
            => ~CacheChanged]_vars

\* a data request answered 429 has left a cached token in place
C34_Witness ==
    \E p \in Procs :
        /\ procs[p].answers.first = <<429>>
        /\ Failed(p)
        /\ cachedToken # 0
        /\ cachedToken = issued
        /\ tokenExpiry > now

(***************************************************************************)
(* Claims about the number of delays of withRetry (checked under SpecRetry)*)
(***************************************************************************)
\* the call has ended: it returned or it threw
Ended == call.pc \in {"returned", "threw"}

\* C36: a backoff delay is waited only between two invocations of the
\* operation: while the operation runs and when the call has ended, the
\* delays waited are one fewer than the invocations; while a delay is being
\* waited, the delays completed are one fewer than the invocations made and
\* the next invocation follows; no delay is waited before the first
\* invocation.
C36_DelaysBetweenInvocations ==
    /\ [](call.pc = "notCalled" => (Len(delays) = 0 /\ invocations = 0))
    /\ [](call.pc # "notCalled" => Len(delays) = invocations - 1)
    /\ [][(Len(delays') = Len(delays) + 1) =>
            (invocations >= 1 /\ invocations' = invocations + 1)]_vars
    /\ [][Ended => (delays' = delays /\ invocations' = invocations)]_vars

\* a call has ended on the refusal of the predicate after three invocations
\* and two delays
C36_Witness ==
    /\ call.pc = "threw"
    /\ invocations = 3
    /\ Len(delays) = 2
    /\ call.attempt < opts.maxAttempts

(***************************************************************************)
(* Claims about interleaved requests (checked under SpecInterleaved)       *)
(***************************************************************************)
\* C35: a 401 answer to a request that carried an older token does not
\* discard a newer token that another request has cached in the meantime:
\* the 401 clears the cache only when the cached token is the one the
\* failing request used.
C35_NewerTokenSurvives401 ==
    [][\A p \in Procs :
         (DataResponse(p, 401) /\ cachedToken # 0
            /\ cachedToken # procs[p].token) =>
                /\ cachedToken' = cachedToken
                /\ tokenExpiry' = tokenExpiry]_vars

(***************************************************************************)
(* Claims about the chat processor (checked under SpecChat)                *)
(***************************************************************************)
\* C32: processWithai never raises and resolves to a non-empty string
\* whatever the intent analysis, the package fetch and the formatting or
\* general-query calls do; the chat handler answers 200 with that text.
C32_AlwaysNonEmptyReply ==
    chat.pc = "done" =>
        /\ chat.outcome.kind = "returned"
        /\ chat.outcome.value # <<>>
        /\ chat.response = <<[route |-> "ai-agent", status |-> 200,
                              response |-> chat.outcome.value]>>

\* the texts createUserFriendlyMessage can return
ErrorReplies == {createUserFriendlyMessage([code |-> code]) : code \in ErrorCodes}

\* the data requests sent downstream for the chat request so far, while
\* the data endpoint has answered nothing but 5xx
DownstreamSoFar ==
    chat.downstream + (IF chat.routed THEN procs["A"].requests ELSE 0)

\* C37: one chat package request sends at most 3 requests to the packages
\* route, and each authenticated request of the route sends at most 3 data
\* requests; while the data endpoint answers nothing but 5xx, at most 9
\* data requests are sent downstream in all, and the chat request then ends
\* with one of the error messages as its reply.
C37_RetryLayersBounded ==
    /\ chat.fetches <= 3
    /\ chat.routeAnswers <= chat.fetches
    /\ \A p \in Procs : procs[p].requests <= 3
    /\ chat.only5xx => DownstreamSoFar <= 9
    /\ (chat.pc = "done" /\ chat.fetches >= 1 /\ chat.only5xx) =>
          /\ chat.outcome.kind = "returned"
          /\ chat.outcome.value \in ErrorReplies
          /\ chat.response = <<[route |-> "ai-agent", status |-> 200,
                                response |-> chat.outcome.value]>>

\* the chat request has ended after 3 requests to the packages route and 9
\* data requests that were all answered 5xx
C37_Witness ==
    /\ chat.pc = "done"
    /\ chat.only5xx
    /\ chat.fetches = 3
    /\ chat.routeAnswers = 3
    /\ chat.downstream = 9
    /\ chat.outcome.value \in ErrorReplies

\* C38: when the package fetch of handlePackageRequest ends with the
\* RetryError of withRetry, the reply is the API_CONNECTION_FAILED message.
C38_RetryErrorGivesConnectionMessage ==
    (chat.pc = "done" /\ chat.fetchError.type = "RetryError") =>
        chat.outcome = Returned(ApiConnectionFailedMessage)

(***************************************************************************)
(* Claims about the guided flow (checked under SpecGuided)                 *)
(***************************************************************************)
\* the messages processWithai was last called with
History == SubSeq(guided.messages, 1, guided.asked)

\* the history holds, in this order, the destination question, a user
\* answer, the duration question, a user answer and the package-type question
AskedInOrder(h) ==
    \E i, j, k, l, m \in 1..Len(h) :
        /\ i < j /\ j < k /\ k < l /\ l < m
        /\ h[i].role = "assistant" /\ includes(h[i].content, WhereQuestion)
        /\ h[j].role = "user"
        /\ h[k].role = "assistant" /\ includes(h[k].content, DaysQuestion)
        /\ h[l].role = "user"
        /\ h[m].role = "assistant" /\ includes(h[m].content, TypeQuestion)

\* the step that precedes a step of the guided flow
Precedes(s, t) ==
    \/ t = "destination" /\ s = "initial"
    \/ t = "duration" /\ s = "destination"
    \/ t = "packageType" /\ s = "duration"

\* C39: processWithai calls executeTool('get_packages') only when the
\* history holds, in order, the destination question, a user answer, the
\* duration question, a user answer and the package-type question; from one
\* request to the next the step stays or moves to the one that follows it.
C39_FetchOnlyAfterGuidedQuestions ==
    /\ [](guided.toolCalls > 0 => AskedInOrder(History))
    /\ [][(guided.step # "none" /\ guided.step' # guided.step
             /\ guided.step' # "initial") =>
              Precedes(guided.step, guided.step')]_vars

====
